---- MODULE Spec2Model ----
(***************************************************************************)
(* A model of the fault-tolerant JSON parser of src/src/parser.js.         *)
(*                                                                         *)
(* The parser is a recursive-descent parser.  It is modelled as a state    *)
(* machine over the fields of one FaultTolerantParser instance (input,     *)
(* pos, errors, _depth, _nestDepth, options) and an explicit call stack:   *)
(* every frame is one activation of parse, parseValue, parseObject,        *)
(* parseArray or parseString with its local variables and the place it     *)
(* resumes at.  The loop-free helpers (skipWS, parseNumber,                *)
(* parseUnquotedIdentifier, _looksLikeKeyValueAhead, the depth-overrun     *)
(* skip) are operators evaluated inside the step that calls them.          *)
(*                                                                         *)
(* A text is a sequence of characters; a character is a one-character      *)
(* string, except the byte-order mark U+FEFF, which is written BOM.        *)
(***************************************************************************)
EXTENDS Integers, Sequences, FiniteSets, TLC

VARIABLES
    calls,        \* the calls the caller makes, in order (a scenario)
    input,        \* this.input of the parser under way
    options,      \* this.options: DEFAULT_OPTIONS overridden by the caller's
    pos,          \* this.pos
    errors,       \* this.errors
    depth,        \* this._depth: consecutive dispatcher retries
    nestDepth,    \* this._nestDepth: open containers
    stack,        \* the call stack inside parse(), innermost frame last
    ret,          \* the value the last completed call returned
    status,       \* where the current call of the API is
    parsed,       \* <<what parse() returned>>, <<>> until it returns
    exception,    \* <<the message of the SyntaxError thrown>>, <<>> if none
    outcomes,     \* what the calls made so far returned, in order
    steps,        \* steps taken by the parser under way
    ui            \* the page of the browser: its fields and requests in flight

vars == <<calls, input, options, pos, errors, depth, nestDepth, stack, ret,
          status, parsed, exception, outcomes, steps, ui>>

----------------------------------------------------------------------------
(* Characters and the character classes the code tests with regular        *)
(* expressions.                                                            *)

BOM == "<U+FEFF>"

Digit == {"0", "1", "2", "3", "4", "5", "6", "7", "8", "9"}

Lower == {"a", "b", "c", "d", "e", "f", "g", "h", "i", "j", "k", "l", "m",
          "n", "o", "p", "q", "r", "s", "t", "u", "v", "w", "x", "y", "z"}

Upper == {"A", "B", "C", "D", "E", "F", "G", "H", "I", "J", "K", "L", "M",
          "N", "O", "P", "Q", "R", "S", "T", "U", "V", "W", "X", "Y", "Z"}

\* /\s/ : the white space characters of the texts considered.  U+FEFF is
\* white space for a JavaScript regular expression and for String.trim.
WhiteSpace == {" ", "\t", "\n", "\r", "\f", BOM}

\* /[a-zA-Z_$]/
IdentStart == Lower \cup Upper \cup {"_", "$"}

\* /[\w$]/
IdentPart == Lower \cup Upper \cup Digit \cup {"_", "$"}

\* /[0-9a-fA-F]/
HexDigit == Digit \cup {"a", "b", "c", "d", "e", "f", "A", "B", "C", "D", "E", "F"}

HexOrder == <<"0", "1", "2", "3", "4", "5", "6", "7", "8", "9",
              "a", "b", "c", "d", "e", "f">>

HexUpper == <<"0", "1", "2", "3", "4", "5", "6", "7", "8", "9",
              "A", "B", "C", "D", "E", "F">>

\* The value of one hexadecimal (or decimal) digit.
DigitValue(c) ==
    (CHOOSE i \in 1..16 : HexOrder[i] = c \/ HexUpper[i] = c) - 1

----------------------------------------------------------------------------
(* Numbers.  A number is kept as an exact decimal  (-1)^neg * mant * 10^exp *)
(* with mant not divisible by 10 (mant = 0 has exp = 0), or NaN.           *)

Num(neg, mant, exp) == [nan |-> FALSE, neg |-> neg, mant |-> mant, exp |-> exp]

NaN == [nan |-> TRUE, neg |-> FALSE, mant |-> 0, exp |-> 0]

Zero == Num(FALSE, 0, 0)

RECURSIVE Normalize(_, _, _)
Normalize(neg, mant, exp) ==
    IF mant = 0 THEN Num(neg, 0, 0)
    ELSE IF mant % 10 = 0 THEN Normalize(neg, mant \div 10, exp + 1)
    ELSE Num(neg, mant, exp)

RECURSIVE DigitsValue(_)
DigitsValue(ds) ==
    IF ds = <<>> THEN 0
    ELSE DigitsValue(SubSeq(ds, 1, Len(ds) - 1)) * 10 + DigitValue(ds[Len(ds)])

\* The number of digits at the head of a text.
RECURSIVE LeadingDigits(_)
LeadingDigits(text) ==
    IF text # <<>> /\ text[1] \in Digit THEN 1 + LeadingDigits(Tail(text)) ELSE 0

Drop(text, n) == SubSeq(text, n + 1, Len(text))

\* Number(text) for a text made of a sign, digits, a dot and an exponent:
\* ECMAScript's StringNumericLiteral  [-] (D+ [. D*] | . D+) [(e|E) [+|-] D+],
\* and NaN for any other text.
NumberOf(text) ==
    LET neg      == text # <<>> /\ text[1] = "-"
        body     == IF neg THEN Tail(text) ELSE text
        intLen   == LeadingDigits(body)
        ints     == SubSeq(body, 1, intLen)
        afterInt == Drop(body, intLen)
        hasDot   == afterInt # <<>> /\ afterInt[1] = "."
        afterDot == IF hasDot THEN Tail(afterInt) ELSE afterInt
        fracLen  == IF hasDot THEN LeadingDigits(afterDot) ELSE 0
        fracs    == SubSeq(afterDot, 1, fracLen)
        afterMan == Drop(afterDot, fracLen)
        hasExp   == afterMan # <<>> /\ afterMan[1] \in {"e", "E"}
        afterE   == IF hasExp THEN Tail(afterMan) ELSE afterMan
        hasSign  == hasExp /\ afterE # <<>> /\ afterE[1] \in {"+", "-"}
        expNeg   == hasSign /\ afterE[1] = "-"
        afterSgn == IF hasSign THEN Tail(afterE) ELSE afterE
        expLen   == IF hasExp THEN LeadingDigits(afterSgn) ELSE 0
        exps     == SubSeq(afterSgn, 1, expLen)
        rest     == Drop(afterSgn, expLen)
        wellFormed == /\ ints # <<>> \/ fracs # <<>>
                      /\ hasExp => exps # <<>>
                      /\ rest = <<>>
        e        == IF expNeg THEN 0 - DigitsValue(exps) ELSE DigitsValue(exps)
    IN  IF wellFormed
        THEN Normalize(neg, DigitsValue(ints \o fracs), e - Len(fracs))
        ELSE NaN

----------------------------------------------------------------------------
(* Values.  Every value is a record of the same shape, so that any two     *)
(* values can be compared: t is the case, and only the fields of that case *)
(* carry information.  An object keeps its members in insertion order as   *)
(* two sequences of the same length, keys and kids.  VUndefined is         *)
(* JavaScript's undefined, the dispatcher's "not a value" signal.          *)

Value(t, b, n, s, keys, kids) ==
    [t |-> t, b |-> b, n |-> n, s |-> s, keys |-> keys, kids |-> kids]

VNull == Value("null", FALSE, Zero, <<>>, <<>>, <<>>)

VUndefined == Value("undefined", FALSE, Zero, <<>>, <<>>, <<>>)

VBool(b) == Value("bool", b, Zero, <<>>, <<>>, <<>>)

VNum(n) == Value("number", FALSE, n, <<>>, <<>>, <<>>)

VStr(s) == Value("string", FALSE, Zero, s, <<>>, <<>>)

VArr(kids) == Value("array", FALSE, Zero, <<>>, <<>>, kids)

VObj(keys, kids) == Value("object", FALSE, Zero, <<>>, keys, kids)

\* The property name that JavaScript does not store as an own property:
\* obj["__proto__"] = v runs the prototype setter of Object.prototype.
ProtoKey == <<"_", "_", "p", "r", "o", "t", "o", "_", "_">>

IndexOf(keys, key) ==
    IF \E i \in 1..Len(keys) : keys[i] = key
    THEN CHOOSE i \in 1..Len(keys) : keys[i] = key
    ELSE 0

\* obj[key] = value  on an object literal {}: a new key is appended, a key
\* already present keeps its place and gets the new value, and "__proto__"
\* creates no own property.
ObjSet(obj, key, value) ==
    IF key = ProtoKey THEN obj
    ELSE IF IndexOf(obj.keys, key) = 0
    THEN VObj(Append(obj.keys, key), Append(obj.kids, value))
    ELSE VObj(obj.keys, [obj.kids EXCEPT ![IndexOf(obj.keys, key)] = value])

\* arr.push(value)
ArrPush(arr, value) == VArr(Append(arr.kids, value))

----------------------------------------------------------------------------
(* Options and diagnostics.                                                *)

DEFAULT_OPTIONS ==
    [strict |-> FALSE, maxDepth |-> 100, allowComments |-> TRUE,
     allowTrailingComma |-> TRUE, convertPythonTokens |-> TRUE,
     convertUndefined |-> TRUE]

\* A diagnostic message: the template (kind) and what the code interpolates
\* into it: a text (a character, a key, hexadecimal digits) and a number (a
\* position, or maxDepth), -1 where the template has no number.
Message(kind, text, num) == [kind |-> kind, text |-> text, num |-> num]

NoNum == 0 - 1

\* The dispatcher gives up after this many consecutive retries.
RetryLimit == 10

----------------------------------------------------------------------------
(* The scanner: ch, eof, skipWS, matchWord.  Positions count from 0.       *)

\* input[i], "" where JavaScript gives undefined.
At(i) == IF i >= 0 /\ i < Len(input) THEN input[i + 1] ELSE ""

\* ch() and eof() of a parser whose cursor is p.
Ch(p) == At(p)

Eof(p) == p >= Len(input)

\* The end of a line comment: the next "\n" or the end of the input.
RECURSIVE LineCommentEnd(_)
LineCommentEnd(p) ==
    IF p < Len(input) /\ At(p) # "\n" THEN LineCommentEnd(p + 1) ELSE p

\* The end of a block comment's body: the next "*/" or the end of the input.
RECURSIVE BlockCommentEnd(_)
BlockCommentEnd(p) ==
    IF p < Len(input) /\ ~(At(p) = "*" /\ At(p + 1) = "/")
    THEN BlockCommentEnd(p + 1)
    ELSE p

\* skipWS(): the cursor after white space and, if enabled, comments.
RECURSIVE SkipWS(_)
SkipWS(p) ==
    IF ~(p < Len(input)) THEN p
    ELSE IF At(p) \in WhiteSpace THEN SkipWS(p + 1)
    ELSE IF options.allowComments /\ At(p) = "/" /\ At(p + 1) = "/"
    THEN SkipWS(LineCommentEnd(p + 2))
    ELSE IF options.allowComments /\ At(p) = "/" /\ At(p + 1) = "*"
    THEN SkipWS(BlockCommentEnd(p + 2) + 2)
    ELSE p

\* matchWord(word) at cursor p: input.startsWith(word, p).
MatchWord(word, p) ==
    /\ p + Len(word) <= Len(input)
    /\ \A i \in 1..Len(word) : input[p + i] = word[i]

W_true == <<"t", "r", "u", "e">>

W_false == <<"f", "a", "l", "s", "e">>

W_null == <<"n", "u", "l", "l">>

W_True == <<"T", "r", "u", "e">>

W_False == <<"F", "a", "l", "s", "e">>

W_None == <<"N", "o", "n", "e">>

W_undefined == <<"u", "n", "d", "e", "f", "i", "n", "e", "d">>

W_NaN == <<"N", "a", "N">>

W_Infinity == <<"I", "n", "f", "i", "n", "i", "t", "y">>

----------------------------------------------------------------------------
(* The loop-free readers.                                                  *)

RECURSIVE SkipDigits(_)
SkipDigits(p) ==
    IF ~Eof(p) /\ Ch(p) \in Digit THEN SkipDigits(p + 1) ELSE p

\* The cursor after the numeric lexeme parseNumber consumes from p.
NumberEnd(p) ==
    LET p1 == IF Ch(p) = "-" THEN p + 1 ELSE p
        p2 == IF Ch(p1) = "0" THEN p1 + 1 ELSE SkipDigits(p1)
        p3 == IF Ch(p2) = "." THEN SkipDigits(p2 + 1) ELSE p2
        p4 == IF Ch(p3) \in {"e", "E"}
              THEN SkipDigits(IF Ch(p3 + 1) \in {"+", "-"} THEN p3 + 2 ELSE p3 + 1)
              ELSE p3
    IN  p4

\* The cursor after the identifier parseUnquotedIdentifier consumes from p.
RECURSIVE IdentifierEnd(_)
IdentifierEnd(p) ==
    IF ~Eof(p) /\ Ch(p) \in IdentPart THEN IdentifierEnd(p + 1) ELSE p

Slice(from, to) == SubSeq(input, from + 1, to)

\* The depth-overrun skip: from cursor p with bal containers open, to after
\* the closer that brings bal to 0, or to the end of the input.
RECURSIVE SkipBalanced(_, _, _, _)
SkipBalanced(p, bal, opener, closer) ==
    IF ~Eof(p) /\ bal > 0
    THEN SkipBalanced(p + 1,
                      IF Ch(p) = opener THEN bal + 1
                      ELSE IF Ch(p) = closer THEN bal - 1 ELSE bal,
                      opener, closer)
    ELSE p

\* A variant of SkipSpace that skips nothing.
SkipSpace_None(i) == i

\* The white space skipped by the look-aheads, which know no comments.
RECURSIVE SkipSpace(_)
SkipSpace(i) ==
    IF i < Len(input) /\ At(i) \in WhiteSpace THEN SkipSpace(i + 1) ELSE i

\* _looksLikeKeyValueAhead: the scan of a quoted key from index i, whose
\* quote is q.  The index after the closing quote; -1 for a line break in
\* the key; the index reached at the end of the input otherwise.
RECURSIVE QuotedKeyEnd(_, _)
QuotedKeyEnd(i, q) ==
    IF ~(i < Len(input)) THEN i
    ELSE IF At(i) = "\\" THEN QuotedKeyEnd(i + 2, q)
    ELSE IF At(i) = q THEN i + 1
    ELSE IF At(i) \in {"\n", "\r"} THEN -1
    ELSE QuotedKeyEnd(i + 1, q)

RECURSIVE WordEnd(_)
WordEnd(i) ==
    IF i < Len(input) /\ At(i) \in IdentPart THEN WordEnd(i + 1) ELSE i

\* _looksLikeKeyValueAhead() at cursor p.
LooksLikeKeyValueAhead(p) ==
    IF Ch(p) \in {"\"", "'"}
    THEN LET i == QuotedKeyEnd(p + 1, Ch(p))
         IN  /\ i # -1
             /\ ~(i >= Len(input))
             /\ At(SkipSpace(i)) = ":"
    ELSE IF Ch(p) \in IdentStart
    THEN At(SkipSpace(WordEnd(p))) = ":"
    ELSE FALSE

----------------------------------------------------------------------------
(* String.fromCharCode(parseInt(hex, 16)).                                 *)

RECURSIVE HexValue(_)
HexValue(hex) ==
    IF hex = <<>> THEN 0
    ELSE HexValue(SubSeq(hex, 1, Len(hex) - 1)) * 16 + DigitValue(hex[Len(hex)])

\* The characters of code 32 to 126, in order (code 96 written by its code).
Ascii ==
  <<
    " ", "!", "\"", "#", "$", "%", "&", "'", "(", ")", "*", "+",
    ",", "-", ".", "/", "0", "1", "2", "3", "4", "5", "6", "7",
    "8", "9", ":", ";", "<", "=", ">", "?", "@", "A", "B", "C",
    "D", "E", "F", "G", "H", "I", "J", "K", "L", "M", "N", "O",
    "P", "Q", "R", "S", "T", "U", "V", "W", "X", "Y", "Z", "[",
    "\\", "]", "^", "_", "U+96", "a", "b", "c", "d", "e", "f", "g",
    "h", "i", "j", "k", "l", "m", "n", "o", "p", "q", "r", "s",
    "t", "u", "v", "w", "x", "y", "z", "{", "|", "}", "~"
  >>

\* The character of a code unit; a character outside the tables is written
\* by its code.
FromCharCode(n) ==
    IF n >= 32 /\ n <= 126 THEN Ascii[n - 31]
    ELSE IF n = 9 THEN "\t"
    ELSE IF n = 10 THEN "\n"
    ELSE IF n = 12 THEN "\f"
    ELSE IF n = 13 THEN "\r"
    ELSE IF n = 65279 THEN BOM
    ELSE "U+" \o ToString(n)

\* The character a one-letter escape stands for, and the empty text for a
\* letter that is no escape (the default of the switch); u is handled apart.
EscapeChar(esc) ==
    IF esc \in {"\"", "'", "\\", "/"} THEN esc
    ELSE IF esc = "b" THEN FromCharCode(8)
    ELSE IF esc = "f" THEN "\f"
    ELSE IF esc = "n" THEN "\n"
    ELSE IF esc = "r" THEN "\r"
    ELSE IF esc = "t" THEN "\t"
    ELSE ""

\* The cursor after at most 4 - j hexadecimal digits from p.
RECURSIVE HexEnd(_, _)
HexEnd(p, j) ==
    IF j < 4 /\ ~Eof(p) /\ Ch(p) \in HexDigit THEN HexEnd(p + 1, j + 1) ELSE p

\* The unescaped-quote heuristic: the character after a candidate closing
\* quote at p and the white space that follows it, "" at the end of input.
NextAfterQuote(p) == At(SkipSpace(p + 1))

\* A variant of ClosesString that does not take an opener for structure.
ClosesString_NoOpeners(next) == next \in {"", ",", ":", "}", "]"}

\* Whether a quote followed (after white space) by next closes the string.
ClosesString(next) == next \in {"", ",", ":", "}", "]", "{", "["}

\* key.replace(/^,+\s*/, "")
RECURSIVE StripCommas(_)
StripCommas(key) ==
    IF key # <<>> /\ key[1] = "," THEN StripCommas(Tail(key)) ELSE key

RECURSIVE StripSpace(_)
StripSpace(key) ==
    IF key # <<>> /\ key[1] \in WhiteSpace THEN StripSpace(Tail(key)) ELSE key

SanitizeKey(key) == StripSpace(StripCommas(key))

----------------------------------------------------------------------------
(* The machine.  A step of the parser is computed on a record m of the     *)
(* parser's fields and its call stack, and then written to the variables.  *)
(* thrown says that error() threw (strict mode): the rest of the step and  *)
(* of the parse is not executed.                                           *)

Frame(fn, pc) ==
    [fn |-> fn, pc |-> pc, val |-> VNull, key |-> <<>>, str |-> <<>>, quote |-> "",
     head |-> 0 - 1]

Cur ==
    [pos |-> pos, errors |-> errors, depth |-> depth, nestDepth |-> nestDepth,
     stack |-> stack, ret |-> ret, thrown |-> FALSE, exc |-> <<>>]

Top(m) == m.stack[Len(m.stack)]

SetTop(m, f) == [m EXCEPT !.stack[Len(m.stack)] = f]

At_pc(m, pc) == SetTop(m, [Top(m) EXCEPT !.pc = pc])

\* The frame under way is at the head of its loop (a dispatcher: at its
\* entry): head keeps the cursor there, -1 before the first time.
AtHead(m) == SetTop(m, [Top(m) EXCEPT !.head = m.pos])

\* The frame under way calls fn and resumes at pc when fn returns.
Call(m, pc, fn) == [At_pc(m, pc) EXCEPT !.stack = Append(@, Frame(fn, "start"))]

\* The frame under way returns v to its caller.
Return(m, v) ==
    [m EXCEPT !.stack = SubSeq(@, 1, Len(@) - 1), !.ret = v]

\* A variant of ThrownText that leaves the position out.
ThrownText_Bare(p, msg) == <<msg>>

\* "[pos N] message", as error() builds it for the SyntaxError it throws.
ThrownText(p, msg) == <<"[pos ", p, "] ", msg>>

\* A variant of Error that puts the diagnostic at the front of the log.
Error_Prepend(m, msg) ==
    [m EXCEPT !.errors = <<[pos |-> m.pos, message |-> msg]>> \o @,
              !.thrown = options.strict,
              !.exc = IF options.strict THEN <<ThrownText(m.pos, msg)>> ELSE <<>>]

\* error(msg): the diagnostic is logged at the cursor, and thrown in strict
\* mode.
Error(m, msg) ==
    [m EXCEPT !.errors = Append(@, [pos |-> m.pos, message |-> msg]),
              !.thrown = options.strict,
              !.exc = IF options.strict THEN <<ThrownText(m.pos, msg)>> ELSE <<>>]

\* "[pos N] message", as parseSmart builds it from a logged diagnostic.
FormatError(e) == <<"[pos ", e.pos, "] ", e.message>>

\* What follows an error() call: nothing if it threw.
Unless(m, next) == IF m.thrown THEN m ELSE next

SetPos(m, p) == [m EXCEPT !.pos = p]

SetVal(m, v) == SetTop(m, [Top(m) EXCEPT !.val = v])

----------------------------------------------------------------------------
(* parseValue, the dispatcher (parser.js 79-129).                          *)

\* parseNumber (404-427), called and returned from by the dispatcher.
ParseNumber(m) ==
    LET start == m.pos
        m1    == SetPos(m, NumberEnd(start))
        num   == NumberOf(Slice(start, m1.pos))
        m2    == Error(m1, Message("Invalid number at pos %n", <<>>, start))
    IN  IF num.nan THEN Unless(m2, Return(m2, VNum(Zero)))
        ELSE Return(m1, VNum(num))

\* A variant of Converted that puts the cursor back before the word.
Converted_Rewound(m, word, kind, v) ==
    LET m1 == Error(SetPos(m, m.pos + Len(word)), Message(kind, <<>>, NoNum))
    IN  Unless(m1, Return(SetPos(m1, m.pos - 1), v))

\* A variant of Converted that logs nothing.
Converted_Silent(m, word, kind, v) == Return(SetPos(m, m.pos + Len(word)), v)

\* A literal that is converted with a diagnostic: the cursor moves first.
Converted(m, word, kind, v) ==
    LET m1 == Error(SetPos(m, m.pos + Len(word)), Message(kind, <<>>, NoNum))
    IN  Unless(m1, Return(m1, v))

\* A variant of Retry that leaves the cursor on the character it logged.
Retry_InPlace(m, kind) ==
    LET m1 == Error(m, Message(kind, <<Ch(m.pos)>>, m.pos))
        m2 == [m1 EXCEPT !.depth = @ + 1]
    IN  Unless(m1, IF m2.depth > RetryLimit
                   THEN Return([m2 EXCEPT !.depth = 0], VNull)
                   ELSE Call(m2, "retry", "parseValue"))

\* The retry paths (109-127): log, skip one character, and dispatch again
\* unless the retry guard trips.
Retry(m, kind) ==
    LET m1 == Error(m, Message(kind, <<Ch(m.pos)>>, m.pos))
        m2 == [m1 EXCEPT !.pos = @ + 1, !.depth = @ + 1]
    IN  Unless(m1, IF m2.depth > RetryLimit
                   THEN Return([m2 EXCEPT !.depth = 0], VNull)
                   ELSE Call(m2, "retry", "parseValue"))

ParseValueStart(m) ==
    LET p  == SkipWS(m.pos)
        m1 == SetPos(m, p)
        c  == Ch(p)
    IN  IF Eof(p) THEN Return(m1, VNull)
        ELSE IF c = "{" THEN Call(m1, "tail", "parseObject")
        ELSE IF c = "[" THEN Call(m1, "tail", "parseArray")
        ELSE IF c \in {"\"", "'"} THEN Call(m1, "tail", "parseString")
        ELSE IF c = "-" \/ c \in Digit THEN ParseNumber(m1)
        ELSE IF MatchWord(W_true, p) THEN Return(SetPos(m1, p + 4), VBool(TRUE))
        ELSE IF MatchWord(W_false, p) THEN Return(SetPos(m1, p + 5), VBool(FALSE))
        ELSE IF MatchWord(W_null, p) THEN Return(SetPos(m1, p + 4), VNull)
        ELSE IF options.convertPythonTokens /\ MatchWord(W_True, p)
        THEN Converted(m1, W_True, "Python True -> true", VBool(TRUE))
        ELSE IF options.convertPythonTokens /\ MatchWord(W_False, p)
        THEN Converted(m1, W_False, "Python False -> false", VBool(FALSE))
        ELSE IF options.convertPythonTokens /\ MatchWord(W_None, p)
        THEN Converted(m1, W_None, "Python None -> null", VNull)
        ELSE IF options.convertUndefined /\ MatchWord(W_undefined, p)
        THEN Converted(m1, W_undefined, "undefined -> null", VNull)
        ELSE IF MatchWord(W_NaN, p)
        THEN Converted(m1, W_NaN, "NaN -> null", VNull)
        ELSE IF MatchWord(W_Infinity, p)
        THEN Converted(m1, W_Infinity, "Infinity -> null", VNull)
        ELSE IF c \in {"}", "]"} THEN Return(m1, VUndefined)
        ELSE IF c \in {",", ":"} THEN Retry(m1, "Stray '%t' at pos %n, skipping")
        ELSE Retry(m1, "Unexpected char '%t' at pos %n, skipping")

\* The dispatcher returns what the reader or the retry it called returned;
\* after a retry it resets the retry counter first (116, 126).
ParseValueReturn(m) ==
    IF Top(m).pc = "retry"
    THEN Return([m EXCEPT !.depth = 0], m.ret)
    ELSE Return(m, m.ret)

----------------------------------------------------------------------------
(* parseObject (134-239).                                                  *)

\* A variant of DepthExceeded that lets one more container open.
DepthExceeded_Late(n) == n > options.maxDepth + 1

\* The depth check of both container readers.
DepthExceeded(n) == n > options.maxDepth

\* What a reader returns for a container beyond maxDepth (146, 255).
Pruned == VNull

\* A variant of Stored that keeps what the dispatcher returned.
Stored_AsIs(value) == value

\* What the object reader stores for the value the dispatcher returned (214).
Stored(value) == IF value # VUndefined THEN value ELSE VNull

MaxDepthMessage == Message("Max depth %n exceeded", <<>>, options.maxDepth)

\* 134-150
ParseObjectStart(m) ==
    LET m1 == [m EXCEPT !.nestDepth = @ + 1]
        m2 == Error(m1, MaxDepthMessage)
        m3 == [m2 EXCEPT !.nestDepth = @ - 1,
                         !.pos = SkipBalanced(m2.pos + 1, 1, "{", "}")]
    IN  IF DepthExceeded(m1.nestDepth)
        THEN Unless(m2, Return(m3, Pruned))
        ELSE At_pc(SetVal(SetPos(m1, SkipWS(m1.pos + 1)), VObj(<<>>, <<>>)), "loop")

\* 231-238
ParseObjectEnd(m) ==
    LET m1 == [m EXCEPT !.nestDepth = @ - 1]
        m2 == Error(m1, Message("Unclosed object, auto-closing at pos %n", <<>>, m1.pos))
    IN  IF Ch(m1.pos) = "}"
        THEN Return(SetPos(m1, m1.pos + 1), Top(m1).val)
        ELSE Unless(m2, Return(m2, Top(m2).val))

\* 204-213: after the colon.
ParseObjectAfterColon(m, key) ==
    LET p  == SkipWS(m.pos)
        m1 == SetPos(m, p)
        m2 == Error(m1, Message("Truncated value for key %t at pos %n", key, p))
    IN  IF Eof(p)
        THEN Unless(m2, ParseObjectEnd(SetVal(m2, ObjSet(Top(m2).val, key, VNull))))
        ELSE Call(SetTop(m1, [Top(m1) EXCEPT !.key = key]), "value", "parseValue")

\* 185-213: from the key just read to the call of the dispatcher.
ParseObjectAfterKey(m, key0) ==
    LET p       == SkipWS(m.pos)
        m1      == SetPos(m, p)
        leading == key0 # <<>> /\ key0[1] = ","
        m2      == IF leading
                   THEN Error(m1, Message("Leading comma in key %t at pos %n", key0, p))
                   ELSE m1
        key     == IF leading THEN SanitizeKey(key0) ELSE key0
        m3      == Error(m2, Message("Expected ':' after key %t at pos %n", key, p))
    IN  Unless(m2,
          IF Ch(p) = ":" THEN ParseObjectAfterColon(SetPos(m2, p + 1), key)
          ELSE Unless(m3,
                 IF Ch(p) = "," \/ Ch(p) = "}" \/ Eof(p)
                 THEN At_pc(SetVal(m3, ObjSet(Top(m3).val, key, VNull)), "loop")
                 ELSE ParseObjectAfterColon(m3, key)))

\* 152-183: the loop test and an iteration up to the key.
ParseObjectLoop(m) ==
    LET p  == SkipWS(m.pos)
        m1 == SetPos(m, p)
        c  == Ch(p)
        e  == IdentifierEnd(p)
        mBracket == Error(m1, Message("Unexpected ']' inside object at pos %n, skipping", <<>>, p))
        mIdent   == Error(SetPos(m1, e), Message("Unquoted key %t at pos %n", Slice(p, e), e))
        mNoKey   == Error(m1, Message("Expected key, got '%t' at pos %n, skipping", <<c>>, p))
    IN  IF Eof(m.pos) \/ Ch(m.pos) = "}" THEN ParseObjectEnd(m)
        ELSE IF Eof(p) THEN ParseObjectEnd(m1)
        ELSE IF c = "," THEN SetPos(m1, SkipWS(p + 1))
        ELSE IF c = "}" THEN ParseObjectEnd(m1)
        ELSE IF c = "]" THEN Unless(mBracket, SetPos(mBracket, p + 1))
        ELSE IF c \in {"\"", "'"} THEN Call(m1, "key", "parseString")
        ELSE IF c \in IdentStart
        THEN Unless(mIdent, ParseObjectAfterKey(mIdent, Slice(p, e)))
        ELSE Unless(mNoKey, SetPos(mNoKey, p + 1))

\* 185-213 for a quoted key, which parseString returned.
ParseObjectKey(m) == ParseObjectAfterKey(m, m.ret.s)

\* 214-228: the value returned by the dispatcher, then the separator.
ParseObjectValue(m) ==
    LET m0 == SetVal(m, ObjSet(Top(m).val, Top(m).key, Stored(m.ret)))
        p  == SkipWS(m0.pos)
        m1 == SetPos(m0, p)
        m2 == Error(m1, Message("Expected ',' or '}' at pos %n, continuing", <<>>, p))
    IN  IF Ch(p) = "," THEN At_pc(SetPos(m1, p + 1), "loop")
        ELSE IF Ch(p) = "}" THEN At_pc(m1, "loop")
        ELSE IF Eof(p) THEN ParseObjectEnd(m1)
        ELSE Unless(m2, At_pc(m2, "loop"))

----------------------------------------------------------------------------
(* parseArray (244-312).                                                   *)

\* 244-259
ParseArrayStart(m) ==
    LET m1 == [m EXCEPT !.nestDepth = @ + 1]
        m2 == Error(m1, MaxDepthMessage)
        m3 == [m2 EXCEPT !.nestDepth = @ - 1,
                         !.pos = SkipBalanced(m2.pos + 1, 1, "[", "]")]
    IN  IF DepthExceeded(m1.nestDepth)
        THEN Unless(m2, Return(m3, Pruned))
        ELSE At_pc(SetVal(SetPos(m1, SkipWS(m1.pos + 1)), VArr(<<>>)), "loop")

\* A variant of ParseArrayEnd that closes an unclosed array without a
\* diagnostic.
ParseArrayEnd_Silent(m) ==
    LET m1 == [m EXCEPT !.nestDepth = @ - 1]
    IN  IF Ch(m1.pos) = "]"
        THEN Return(SetPos(m1, m1.pos + 1), Top(m1).val)
        ELSE Return(m1, Top(m1).val)

\* 304-311
ParseArrayEnd(m) ==
    LET m1 == [m EXCEPT !.nestDepth = @ - 1]
        m2 == Error(m1, Message("Unclosed array, auto-closing at pos %n", <<>>, m1.pos))
    IN  IF Ch(m1.pos) = "]"
        THEN Return(SetPos(m1, m1.pos + 1), Top(m1).val)
        ELSE Unless(m2, Return(m2, Top(m2).val))

\* 261-286: the loop test and an iteration up to the call of the dispatcher.
ParseArrayLoop(m) ==
    LET p  == SkipWS(m.pos)
        m1 == SetPos(m, p)
        c  == Ch(p)
        mBrace == Error(m1, Message("Unexpected '}' inside array at pos %n, skipping", <<>>, p))
        mKey   == Error(m1, Message("Detected object key inside array at pos %n, closing array", <<>>, p))
    IN  IF Eof(m.pos) \/ Ch(m.pos) = "]" THEN ParseArrayEnd(m)
        ELSE IF Eof(p) THEN ParseArrayEnd(m1)
        ELSE IF c = "," THEN SetPos(m1, SkipWS(p + 1))
        ELSE IF c = "]" THEN ParseArrayEnd(m1)
        ELSE IF c = "}" THEN Unless(mBrace, SetPos(mBrace, p + 1))
        ELSE IF LooksLikeKeyValueAhead(p) THEN Unless(mKey, ParseArrayEnd(mKey))
        ELSE Call(m1, "value", "parseValue")

\* What the array reader does with the value the dispatcher returned (287-289).
Pushed(arr, value) == IF value # VUndefined THEN ArrPush(arr, value) ELSE arr

\* A variant of ParseArrayValue that takes a comma as a separator only when
\* an element follows it.
ParseArrayValue_NoTrailing(m) ==
    LET m0 == SetVal(m, Pushed(Top(m).val, m.ret))
        p  == SkipWS(m0.pos)
        m1 == SetPos(m0, p)
        m2 == Error(m1, Message("Expected ',' or ']' at pos %n, continuing", <<>>, p))
    IN  IF Ch(p) = "," /\ Ch(SkipWS(p + 1)) # "]" THEN At_pc(SetPos(m1, p + 1), "loop")
        ELSE IF Ch(p) = "]" THEN At_pc(m1, "loop")
        ELSE IF Eof(p) THEN ParseArrayEnd(m1)
        ELSE Unless(m2, At_pc(m2, "loop"))

\* A variant of ParseArrayValue that takes a comma before the closer as a
\* separator only when allowTrailingComma is true.
ParseArrayValue_ByOption(m) ==
    LET m0 == SetVal(m, Pushed(Top(m).val, m.ret))
        p  == SkipWS(m0.pos)
        m1 == SetPos(m0, p)
        m2 == Error(m1, Message("Expected ',' or ']' at pos %n, continuing", <<>>, p))
    IN  IF Ch(p) = "," /\ (options.allowTrailingComma \/ Ch(SkipWS(p + 1)) # "]")
        THEN At_pc(SetPos(m1, p + 1), "loop")
        ELSE IF Ch(p) = "]" THEN At_pc(m1, "loop")
        ELSE IF Eof(p) THEN ParseArrayEnd(m1)
        ELSE Unless(m2, At_pc(m2, "loop"))

\* 286-301: the value returned by the dispatcher, then the separator.
ParseArrayValue(m) ==
    LET m0 == SetVal(m, Pushed(Top(m).val, m.ret))
        p  == SkipWS(m0.pos)
        m1 == SetPos(m0, p)
        m2 == Error(m1, Message("Expected ',' or ']' at pos %n, continuing", <<>>, p))
    IN  IF Ch(p) = "," THEN At_pc(SetPos(m1, p + 1), "loop")
        ELSE IF Ch(p) = "]" THEN At_pc(m1, "loop")
        ELSE IF Eof(p) THEN ParseArrayEnd(m1)
        ELSE Unless(m2, At_pc(m2, "loop"))

----------------------------------------------------------------------------
(* parseString (320-402).                                                  *)

\* 321-323
ParseStringStart(m) ==
    At_pc(SetTop(SetPos(m, m.pos + 1), [Top(m) EXCEPT !.quote = Ch(m.pos)]), "loop")

AddStr(m, chars) == SetTop(m, [Top(m) EXCEPT !.str = @ \o chars])

\* 400-401
ParseStringEnd(m) ==
    LET m1 == Error(m, Message("Unterminated string at pos %n", <<>>, m.pos))
    IN  Unless(m1, Return(m1, VStr(Top(m1).str)))

\* 329-368: an escape sequence, the cursor being on the backslash.
ParseStringEscape(m) ==
    LET p1     == m.pos + 1
        esc    == Ch(p1)
        p2     == p1 + 1
        hexEnd == HexEnd(p2, 0)
        hex    == Slice(p2, hexEnd)
        mTrunc == Error(SetPos(m, p1), Message("Truncated escape at end of input", <<>>, NoNum))
        mHex   == Error(SetPos(m, hexEnd), Message("Invalid \\u%t at pos %n", hex, hexEnd))
        mEsc   == Error(SetPos(m, p2), Message("Invalid escape \\%t at pos %n", <<esc>>, p2 - 1))
    IN  IF Eof(p1) THEN Unless(mTrunc, ParseStringEnd(mTrunc))
        ELSE IF esc = "u"
        THEN IF Len(hex) = 4
             THEN AddStr(SetPos(m, hexEnd), <<FromCharCode(HexValue(hex))>>)
             ELSE Unless(mHex, AddStr(mHex, <<"\\", "u">> \o hex))
        ELSE IF EscapeChar(esc) # ""
        THEN AddStr(SetPos(m, p2), <<EscapeChar(esc)>>)
        ELSE Unless(mEsc, AddStr(mEsc, <<esc>>))

\* 325-398: the loop test and one iteration.
ParseStringLoop(m) ==
    LET p      == m.pos
        c      == Ch(p)
        mQuote == Error(m, Message("Unescaped quote in string at pos %n", <<>>, p))
        mLine  == Error(m, Message("Newline in string at pos %n, closing string", <<>>, p))
    IN  IF Eof(p) THEN ParseStringEnd(m)
        ELSE IF c = "\\" THEN ParseStringEscape(m)
        ELSE IF c = Top(m).quote
        THEN IF ClosesString(NextAfterQuote(p))
             THEN Return(SetPos(m, p + 1), VStr(Top(m).str))
             ELSE Unless(mQuote, AddStr(SetPos(mQuote, p + 1), <<c>>))
        ELSE IF c \in {"\n", "\r"} THEN Unless(mLine, Return(mLine, VStr(Top(mLine).str)))
        ELSE AddStr(SetPos(m, p + 1), <<c>>)

----------------------------------------------------------------------------
(* parse (465-471) and parseSmart (474-498).                               *)

\* null or undefined given as the input: a text of one mark that is no
\* character.
NullInput == <<"<null>">>

\* A variant of IsBlank that only knows the white space of JSON.
IsBlank_JSONSpace(text) ==
    \A i \in 1..Len(text) : text[i] \in {" ", "\t", "\n", "\r"}

\* !input || !input.trim()
IsBlank(text) ==
    text = NullInput \/ \A i \in 1..Len(text) : text[i] \in WhiteSpace

\* { ...DEFAULT_OPTIONS, ...options }
MergeOptions(given) ==
    [k \in DOMAIN DEFAULT_OPTIONS \cup DOMAIN given |->
        IF k \in DOMAIN given THEN given[k] ELSE DEFAULT_OPTIONS[k]]

\* 466-469: the byte-order mark, white space, then the dispatcher.
ParseBegin(m) ==
    LET p0 == IF input # <<>> /\ input[1] = BOM THEN 1 ELSE m.pos
        m1 == SetPos(m, SkipWS(p0))
    IN  IF Eof(m1.pos) THEN Return(m1, VNull) ELSE Call(m1, "result", "parseValue")

\* A variant of OkOf that tolerates one diagnostic.
OkOf_AllowOne(errs) == Len(errs) <= 1

\* ok of the record parse() returns (470).
OkOf(errs) == Len(errs) = 0

\* The record parse() returns for an input that is all white space (468).
ParsedNothing == [ok |-> TRUE, result |-> VNull, errors |-> <<>>]

\* The record parse() returns after the dispatcher (470).
ParsedValue(result, errs) == [ok |-> OkOf(errs), result |-> result, errors |-> errs]

\* results of the outcome (483).
ResultsOf(result) ==
    IF result # VNull /\ result # VUndefined THEN <<result>> ELSE <<>>

\* 476
EmptyOutcome ==
    [ok |-> TRUE, results |-> <<>>, errorCount |-> 0, errors |-> <<>>,
     multiple |-> FALSE]

\* 481-487
OutcomeOf(r) ==
    [ok |-> r.ok, results |-> ResultsOf(r.result), errorCount |-> Len(r.errors),
     errors |-> [i \in 1..Len(r.errors) |-> FormatError(r.errors[i])],
     multiple |-> FALSE]

\* 490-496
CaughtOutcome(message) ==
    [ok |-> FALSE, results |-> <<>>, errorCount |-> 1, errors |-> <<message>>,
     multiple |-> FALSE]

----------------------------------------------------------------------------
(* Steps.                                                                  *)

\* The page as loaded: an empty input, no timer, no request, nothing shown.
\* output and notes hold <<raw>> when they show the response to the request
\* for the text raw, <<>> when they show none; issued and last are the
\* number of requests made and the text of the last one.
UIStart ==
    [value |-> <<>>, parseTimer |-> FALSE, inflight |-> {}, issued |-> 0,
     last |-> <<>>, currentResult |-> <<>>, output |-> <<>>, notes |-> <<>>]

\* The caller makes the calls of one scenario: a sequence of calls, each
\* [api, input, options] with options the caller's (partial) options object.
InitWith(scenarios) ==
    /\ calls \in scenarios
    /\ input = <<>>
    /\ options = DEFAULT_OPTIONS
    /\ pos = 0
    /\ errors = <<>>
    /\ depth = 0
    /\ nestDepth = 0
    /\ stack = <<>>
    /\ ret = VUndefined
    /\ status = "idle"
    /\ parsed = <<>>
    /\ exception = <<>>
    /\ outcomes = <<>>
    /\ steps = 0
    /\ ui = UIStart

\* The call under way, or the next to make.
ThisCall == calls[Len(outcomes) + 1]

\* Every call of the scenario has returned.
Done == Len(outcomes) = Len(calls) /\ status = "idle"

\* The frame under way is an activation of fn that resumes at pc.
In(fn, pc) ==
    /\ status = "running"
    /\ stack # <<>>
    /\ stack[Len(stack)].fn = fn
    /\ stack[Len(stack)].pc = pc

\* The step's result m becomes the state; a throw unwinds the call stack.
Commit(m) ==
    /\ pos' = m.pos
    /\ errors' = m.errors
    /\ depth' = m.depth
    /\ nestDepth' = m.nestDepth
    /\ ret' = m.ret
    /\ stack' = IF m.thrown THEN <<>> ELSE m.stack
    /\ status' = IF m.thrown THEN "thrown" ELSE "running"
    /\ exception' = m.exc
    /\ steps' = steps + 1
    /\ UNCHANGED <<calls, input, options, parsed, outcomes, ui>>

\* new FaultTolerantParser(input, options) (27-34), then parse() is called.
Construct(call) ==
    /\ input' = call.input
    /\ options' = MergeOptions(call.options)
    /\ pos' = 0
    /\ errors' = <<>>
    /\ depth' = 0
    /\ nestDepth' = 0
    /\ stack' = <<Frame("parse", "start")>>
    /\ ret' = VUndefined
    /\ status' = "running"
    /\ parsed' = <<>>
    /\ exception' = <<>>
    /\ steps' = 0
    /\ UNCHANGED ui

Finish(outcome) ==
    /\ outcomes' = Append(outcomes, outcome)
    /\ status' = "idle"
    /\ UNCHANGED <<calls, input, options, pos, errors, depth, nestDepth, stack,
                   ret, parsed, exception, steps, ui>>

\* The request of the browser (public/app.js) and the /parse handler of the
\* server (server.js).
\* JSON.stringify of one character of a string.
StringifyChar(c) ==
    CASE c = "\"" -> <<"\\", "\"">>
      [] c = "\\" -> <<"\\", "\\">>
      [] c = "\n" -> <<"\\", "n">>
      [] c = "\r" -> <<"\\", "r">>
      [] c = "\t" -> <<"\\", "t">>
      [] c = "\f" -> <<"\\", "f">>
      [] OTHER -> <<c>>

RECURSIVE StringifyChars(_)
StringifyChars(text) ==
    IF text = <<>> THEN <<>>
    ELSE StringifyChar(Head(text)) \o StringifyChars(Tail(text))

\* JSON.stringify of a string, of a boolean and of a natural number.
StringifyString(text) == <<"\"">> \o StringifyChars(text) \o <<"\"">>

StringifyBool(b) == IF b THEN W_true ELSE W_false

DecimalDigits == <<"0", "1", "2", "3", "4", "5", "6", "7", "8", "9">>

RECURSIVE StringifyNat(_)
StringifyNat(n) ==
    IF n < 10 THEN <<DecimalDigits[n + 1]>>
    ELSE StringifyNat(n \div 10) \o <<DecimalDigits[(n % 10) + 1]>>

\* The body of the request of the browser: JSON.stringify({ input: raw,
\* options: getOptions() }), with the six options in the order of getOptions.
Envelope(raw, chosen) ==
    <<"{">> \o <<"\"", "i", "n", "p", "u", "t", "\"", ":">>
            \o StringifyString(raw)
        \o <<",">> \o <<"\"", "o", "p", "t", "i", "o", "n", "s", "\"", ":">>
            \o <<"{">>
        \o <<"\"", "s", "t", "r", "i", "c", "t", "\"", ":">>
            \o StringifyBool(chosen.strict)
        \o <<",">> \o <<"\"", "m", "a", "x", "D", "e", "p", "t", "h", "\"", ":">>
            \o StringifyNat(chosen.maxDepth)
        \o <<",">> \o <<"\"", "a", "l", "l", "o", "w", "C", "o", "m", "m", "e", "n", "t", "s", "\"", ":">>
            \o StringifyBool(chosen.allowComments)
        \o <<",">> \o <<"\"", "a", "l", "l", "o", "w", "T", "r", "a", "i", "l", "i", "n", "g", "C", "o", "m", "m", "a", "\"", ":">>
            \o StringifyBool(chosen.allowTrailingComma)
        \o <<",">> \o <<"\"", "c", "o", "n", "v", "e", "r", "t", "P", "y", "t", "h", "o", "n", "T", "o", "k", "e", "n", "s", "\"", ":">>
            \o StringifyBool(chosen.convertPythonTokens)
        \o <<",">> \o <<"\"", "c", "o", "n", "v", "e", "r", "t", "U", "n", "d", "e", "f", "i", "n", "e", "d", "\"", ":">>
            \o StringifyBool(chosen.convertUndefined)
        \o <<"}", "}">>

\* The browser posts the text and the chosen options to /parse.
PostCall(text, chosen) == [api |-> "post", input |-> text, options |-> chosen]

\* What the handler of /parse gives to parseSmart: the body of the request
\* as text, and no options.
HandlerCall(body) == [api |-> "parseSmart", input |-> body, options |-> <<>>]

\* parseSmart(input, options), up to the call of parse() (474-480).
ParseSmart ==
    /\ status = "idle"
    /\ ~Done
    /\ ThisCall.api = "parseSmart"
    /\ IF IsBlank(ThisCall.input)
       THEN Finish(EmptyOutcome)
       ELSE Construct(ThisCall) /\ UNCHANGED <<calls, outcomes>>

\* A request to /parse: the browser sends the envelope, the body parser
\* hands it to the handler as text, and the handler calls parseSmart on it.
PostParse ==
    /\ status = "idle"
    /\ ~Done
    /\ ThisCall.api = "post"
    /\ LET call == HandlerCall(Envelope(ThisCall.input, ThisCall.options))
       IN  IF IsBlank(call.input)
           THEN Finish(EmptyOutcome)
           ELSE Construct(call) /\ UNCHANGED <<calls, outcomes>>

\* The direct API: new FaultTolerantParser(input, options).parse().
DirectParse ==
    /\ status = "idle"
    /\ ~Done
    /\ ThisCall.api = "parse"
    /\ Construct(ThisCall)
    /\ UNCHANGED <<calls, outcomes>>

Parse == In("parse", "start") /\
    LET m == ParseBegin(Cur)
    IN  IF m.stack = <<>>
        THEN /\ parsed' = <<ParsedNothing>>
             /\ status' = "returned"
             /\ pos' = m.pos
             /\ stack' = <<>>
             /\ steps' = steps + 1
             /\ UNCHANGED <<calls, input, options, errors, depth, nestDepth, ret,
                            exception, outcomes, ui>>
        ELSE Commit(m)

ParseResult ==
    /\ In("parse", "result")
    /\ parsed' = <<ParsedValue(ret, errors)>>
    /\ status' = "returned"
    /\ stack' = <<>>
    /\ steps' = steps + 1
    /\ UNCHANGED <<calls, input, options, pos, errors, depth, nestDepth, ret,
                   exception, outcomes, ui>>

\* parse() returned to its caller: parseSmart builds the outcome, the direct
\* caller has the record.
Returned ==
    /\ status = "returned"
    /\ IF ThisCall.api \in {"parseSmart", "post"}
       THEN Finish(OutcomeOf(parsed[1]))
       ELSE Finish(parsed[1])

\* parse() threw: parseSmart catches, the direct caller gets the exception.
Thrown ==
    /\ status = "thrown"
    /\ IF ThisCall.api \in {"parseSmart", "post"}
       THEN Finish(CaughtOutcome(exception[1]))
       ELSE Finish([threw |-> exception[1]])

ParseValue == In("parseValue", "start") /\ Commit(ParseValueStart(AtHead(Cur)))

ParseValueDone ==
    /\ status = "running"
    /\ stack # <<>>
    /\ stack[Len(stack)].fn = "parseValue"
    /\ stack[Len(stack)].pc \in {"tail", "retry"}
    /\ Commit(ParseValueReturn(Cur))

ParseObject == In("parseObject", "start") /\ Commit(ParseObjectStart(Cur))

ParseObjectMember == In("parseObject", "loop") /\ Commit(ParseObjectLoop(AtHead(Cur)))

ParseObjectColon == In("parseObject", "key") /\ Commit(ParseObjectKey(Cur))

ParseObjectSeparator == In("parseObject", "value") /\ Commit(ParseObjectValue(Cur))

ParseArray == In("parseArray", "start") /\ Commit(ParseArrayStart(Cur))

ParseArrayElement == In("parseArray", "loop") /\ Commit(ParseArrayLoop(AtHead(Cur)))

ParseArraySeparator == In("parseArray", "value") /\ Commit(ParseArrayValue(Cur))

ParseString == In("parseString", "start") /\ Commit(ParseStringStart(Cur))

ParseStringChar == In("parseString", "loop") /\ Commit(ParseStringLoop(AtHead(Cur)))

Next ==
    \/ ParseSmart
    \/ PostParse
    \/ DirectParse
    \/ Parse
    \/ ParseResult
    \/ Returned
    \/ Thrown
    \/ ParseValue
    \/ ParseValueDone
    \/ ParseObject
    \/ ParseObjectMember
    \/ ParseObjectColon
    \/ ParseObjectSeparator
    \/ ParseArray
    \/ ParseArrayElement
    \/ ParseArraySeparator
    \/ ParseString
    \/ ParseStringChar

----------------------------------------------------------------------------
(* The inputs.  A scenario is the sequence of calls one caller makes.      *)

SmartCall(text, given) == [api |-> "parseSmart", input |-> text, options |-> given]

DirectCall(text, given) == [api |-> "parse", input |-> text, options |-> given]

Q == "\""

\* The free family: every text of at most MaxTokens of these tokens.
MaxTokens == 3

Tokens ==
    { <<"{">>, <<"}">>, <<"[">>, <<"]">>, <<",">>, <<":">>, <<Q>>,
      <<"a">>, <<"1">>, <<" ">>, <<"\\">>, <<Q, "a", Q>>, <<Q, "a", Q, ":">> }

RECURSIVE Texts(_)
Texts(n) ==
    IF n = 0 THEN {<<>>}
    ELSE LET shorter == Texts(n - 1)
         IN  shorter \cup {t \o k : t \in shorter, k \in Tokens}

FreeTexts == Texts(MaxTokens)

\* The lexical family: one lexeme in one context.
Literals ==
    { W_true, W_false, W_null, W_True, W_False, W_None, W_undefined, W_NaN,
      W_Infinity, <<"t", "r", "u">>, <<"n", "u", "l", "l", "s">> }

Numbers ==
    { <<"0">>, <<"-", "0">>, <<"1", "0">>, <<"1", "2">>, <<"0", "1">>,
      <<"1", ".", "5">>, <<"1", ".">>, <<"-", ".", "5">>, <<"-">>, <<"-", "a">>,
      <<"1", "e", "1">>, <<"1", "E", "+", "1">>, <<"1", "e", "-", "1">>,
      <<"1", "e">>, <<"1", "e", "+">>, <<"1", ".", "5", "e", "1">>,
      <<"1", ".", "e", "1">>, <<"1", "0", "0">>, <<"0", ".", "0">>,
      <<"1", "-">>, <<"+", "1">>, <<".", "5">> }

Strings ==
    { <<Q, Q>>, <<Q, "a", "b", Q>>, <<"'", "a", "'">>, <<"'", Q, "'">>,
      <<Q, "'", Q>>, <<Q, "\\", Q, Q>>, <<Q, "\\", "\\", Q>>,
      <<Q, "\\", "/", Q>>, <<Q, "\\", "n", Q>>, <<Q, "\\", "t", Q>>,
      <<Q, "\\", "b", Q>>, <<Q, "\\", "x", Q>>, <<Q, "\\", "'", Q>>,
      <<Q, "\\", "u", "0", "0", "4", "1", Q>>,
      <<Q, "\\", "u", "0", "0", "4", "1", "1", Q>>,
      <<Q, "\\", "u", "0", "0", "4", Q>>, <<Q, "\\", "u", Q>>,
      <<Q, "\\", "u", "0", "0", "6", "a", Q>>,
      <<Q, "\\", "u", "0", "0", "6", "A", Q>>,
      <<Q, "a">>, <<Q, "a", "\\">>, <<Q, "a", "\\", "u", "0">>,
      <<Q, "a", Q, "b", Q>>, <<Q, "a", Q, " ", "b", Q>>, <<Q, "a", "\n", "b", Q>>,
      <<Q, "a", "\r", Q>>, <<Q, ",", "a", Q>>, <<Q, ",", ",", " ", "a", Q>>,
      <<Q, "a", ",", "b", Q>>, <<Q, "a", ":", Q>>, <<Q, "{", "}", Q>>,
      <<Q, "/", "/", Q>>, <<Q, "/", "*", Q>>, <<Q, " ", "a", " ", Q>>,
      <<Q, "a", "'", Q>>, <<"'", "a", Q, "'">>, <<Q, "a", "'">>,
      ProtoKey, <<Q>> \o ProtoKey \o <<Q>> }

Comments ==
    { <<"/", "/", "a", "\n">>, <<"/", "/", "a">>, <<"/", "*", "a", "*", "/">>,
      <<"/", "*", "a">>, <<"/", "*", "*">>, <<"/", "*", "\n", "*", "/">>,
      <<"/">>, <<"/", "/", "\n", "/", "*", "*", "/", " ">>, <<"/", "*", "/">> }

Others ==
    { <<"a">>, <<"a", "1">>, <<"$", "_">>, <<"1", "a">>, <<BOM>>, <<"\t">>,
      <<"\f">>, <<"a", " ", ":">>, <<"T", "r", "u", "e", ":">> }

Lexemes == Literals \cup Numbers \cup Strings \cup Comments \cup Others

\* A context is the text before and the text after the lexeme.
Contexts ==
    { <<<<>>, <<>>>>,
      <<<<" ">>, <<" ">>>>,
      <<<<BOM>>, <<"\n">>>>,
      <<<<"[">>, <<"]">>>>,
      <<<<"[">>, <<>>>>,
      <<<<"[", "1", ",">>, <<",", "1", "]">>>>,
      <<<<"[", "1", " ">>, <<" ", "1", "]">>>>,
      <<<<"{", Q, "a", Q, ":">>, <<"}">>>>,
      <<<<"{", Q, "a", Q, ":">>, <<>>>>,
      <<<<"{", Q, "a", Q, " ">>, <<"}">>>>,
      <<<<"{">>, <<":", "1", "}">>>>,
      <<<<"{">>, <<"}">>>>,
      <<<<"{">>, <<" ", "1", ",", Q, "b", Q, ":", "2", "}">>>>,
      <<<<"{", Q, "a", Q, ":", "1", ",">>, <<":", "2", "}">>>>,
      <<<<"{", Q, "a", Q, ":", "[", "1", ",">>, <<":", "2", "}">>>>,
      <<<<"{", Q, "a", Q, ":", "1", " ">>, <<":", "2", "}">>>> }

LexicalTexts == {c[1] \o x \o c[2] : c \in Contexts, x \in Lexemes}

\* The family of valid JSON documents: every document of at most MaxNodes
\* values made of these leaves, arrays and objects with the key "a".
MaxNodes == 4

Leaves == { <<"1">>, <<Q, "b", Q>>, W_null }

DocKey == <<Q, "a", Q, ":">>

RECURSIVE Docs(_)
RECURSIVE Lists(_, _)

\* The comma-separated lists of documents of n values in all, each after pre.
Lists(n, pre) ==
    { pre \o d : d \in Docs(n) }
    \cup UNION { { pre \o d \o <<",">> \o rest : d \in Docs(i), rest \in Lists(n - i, pre) }
                 : i \in 1..(n - 1) }

\* The documents of exactly n values.
Docs(n) ==
    IF n = 1 THEN Leaves \cup { <<"[", "]">>, <<"{", "}">> }
    ELSE { <<"[">> \o l \o <<"]">> : l \in Lists(n - 1, <<>>) }
         \cup { <<"{">> \o l \o <<"}">> : l \in Lists(n - 1, DocKey) }

DocTexts == UNION { Docs(n) : n \in 1..MaxNodes }

\* The garbage family: runs of characters the dispatcher skips, of about
\* RetryLimit characters, alone and inside a container.
RECURSIVE Repeat(_, _)
Repeat(text, n) == IF n = 0 THEN <<>> ELSE text \o Repeat(text, n - 1)

GarbageTexts ==
    { c[1] \o Repeat(g, n) \o c[2] :
        c \in { <<<<>>, <<>>>>, <<<<"[">>, <<"1", "]">>>>,
                <<<<"{", Q, "a", Q, ":">>, <<"1", "}">>>> },
        g \in { <<",">>, <<"@">>, <<":", " ">>, <<"@", "[">> },
        n \in (RetryLimit - 1)..(RetryLimit + 2) }

\* The family of cut documents: a valid document cut at the end of input
\* while containers are open, as [text, whole]: whole is the text with the
\* pending key, if any, given the value null and the open containers closed.
RECURSIVE Rows(_, _)

\* The comma-separated lists of at most n leaves, each after pre.
Rows(n, pre) ==
    IF n = 0 THEN {<<>>}
    ELSE LET shorter == Rows(n - 1, pre)
         IN  shorter \cup { (IF r = <<>> THEN r ELSE r \o <<",">>) \o pre \o x :
                               r \in shorter, x \in Leaves }

Sep(row) == IF row = <<>> THEN <<>> ELSE <<",">>

Cut(text, whole) == [text |-> text, whole |-> whole]

\* The ways a pending key "b" is cut, and what completes it.
PendingKeys ==
    { Cut(<<Q, "b">>, <<Q, "b", Q, ":">> \o W_null),
      Cut(<<Q, "b", Q>>, <<Q, "b", Q, ":">> \o W_null),
      Cut(<<Q, "b", Q, ":">>, <<Q, "b", Q, ":">> \o W_null) }

\* An array cut after at most n complete elements, or inside the container
\* in (none if in is empty) that follows them.
CutArrays(n, inner) ==
    { Cut(<<"[">> \o r, <<"[">> \o r \o <<"]">>) : r \in Rows(n, <<>>) }
    \cup { Cut(<<"[">> \o r \o <<",">>, <<"[">> \o r \o <<"]">>) :
              r \in Rows(n, <<>>) \ {<<>>} }
    \cup { Cut(<<"[">> \o r \o Sep(r) \o c.text,
               <<"[">> \o r \o Sep(r) \o c.whole \o <<"]">>) :
              r \in Rows(n, <<>>), c \in inner }

\* An object cut after at most one complete member, at a pending key, or
\* inside the container that is the value of the pending key.
CutObjects(inner) ==
    { Cut(<<"{">> \o r, <<"{">> \o r \o <<"}">>) : r \in Rows(1, DocKey) }
    \cup { Cut(<<"{">> \o r \o <<",">>, <<"{">> \o r \o <<"}">>) :
              r \in Rows(1, DocKey) \ {<<>>} }
    \cup { Cut(<<"{">> \o r \o Sep(r) \o k.text,
               <<"{">> \o r \o Sep(r) \o k.whole \o <<"}">>) :
              r \in Rows(1, DocKey), k \in PendingKeys }
    \cup { Cut(<<"{">> \o r \o Sep(r) \o <<Q, "b", Q, ":">> \o c.text,
               <<"{">> \o r \o Sep(r) \o <<Q, "b", Q, ":">> \o c.whole \o <<"}">>) :
              r \in Rows(1, DocKey), c \in inner }

\* One container open, or two.
CutInner == CutArrays(3, {}) \cup CutObjects({})

CutDocs == CutInner \cup CutArrays(1, CutInner) \cup CutObjects(CutInner)

CutTexts == { c.text : c \in CutDocs }

\* The family of commented documents: a valid document, given by its
\* tokens, with one comment put in one of the gaps before, between and after
\* the tokens, as [text, plain]: plain is the document without the comment.
RECURSIVE Flatten(_)
Flatten(tokens) ==
    IF tokens = <<>> THEN <<>> ELSE Head(tokens) \o Flatten(Tail(tokens))

TokenDocs ==
    { << <<"[">>, <<"1">>, <<",">>, <<Q, "b", Q>>, <<"]">> >>,
      << <<"{">>, <<Q, "a", Q>>, <<":">>, <<Q, "b", Q>>, <<",">>, <<Q, "c", Q>>,
         <<":">>, <<"[">>, W_true, <<",">>, <<"1">>, <<"]">>, <<"}">> >> }

Inserted ==
    { <<"/", "*", "a", "*", "/">>, <<"/", "/", "a", "\n">>,
      <<" ", "/", "*", "*", "/", "/", "/", "\n", " ", "/", "*", "\n", "*", "/">> }

Commented(text, plain) == [text |-> text, plain |-> plain]

CommentedDocs ==
    { Commented(Flatten(SubSeq(d, 1, g)) \o c \o Flatten(SubSeq(d, g + 1, Len(d))),
                Flatten(d)) :
        d \in TokenDocs, g \in 0..5, c \in Inserted }
    \cup { Commented(Flatten(SubSeq(d, 1, g)) \o c \o Flatten(SubSeq(d, g + 1, Len(d))),
                     Flatten(d)) :
             d \in { t \in TokenDocs : Len(t) = 13 }, g \in 6..13, c \in Inserted }

CommentedTexts == { c.text : c \in CommentedDocs }

\* The family of objects of two members without the comma between them, as
\* [text, whole]: whole is the object with the comma.
FirstValues ==
    { <<"1">>, W_true, W_null, <<Q, "x", Q>>, <<Q, Q>>, <<"[", "1", "]">>,
      <<"[", "]">>, <<"{", Q, "c", Q, ":", "1", "}">>, <<"-", "1", ".", "5">> }

SecondMember == <<Q, "b", Q, ":", "2", "}">>

NoCommaDocs ==
    { Cut(<<"{">> \o DocKey \o v \o gap \o SecondMember,
          <<"{">> \o DocKey \o v \o <<",">> \o SecondMember) :
        v \in FirstValues,
        gap \in { <<>>, <<" ">>, <<"\n">> } }

NoCommaTexts == { c.text : c \in NoCommaDocs }

\* The family of arrays with an object key where an element is expected, as
\* [text, whole, at]: whole is the text with the array closed before the
\* key (and the key quoted), at is where the key starts in the text.
KeyInArray(text, whole, at) == [text |-> text, whole |-> whole, at |-> at]

ElementsBefore == { <<>>, <<"1", ",">>, <<Q, "x", Q, ",", " ">>, <<"1", " ">>, <<"[", "]", ",">> }

\* The elements before the key, as a valid array.
ClosedArray(elems) ==
    <<"[">> \o (IF elems # <<>> /\ elems[Len(elems)] = " "
                THEN SubSeq(elems, 1, Len(elems) - 1) ELSE elems)

\* [written, name]: how the key is written with its colon, and its name.
WouldBeKeys ==
    { <<<<Q, "b", Q, ":">>, <<"b">>>>, <<<<"'", "b", "'", ":">>, <<"b">>>>,
      <<<<"b", ":">>, <<"b">>>>, <<<<Q, "b", Q, " ", ":">>, <<"b">>>>,
      <<<<"b", "\n", ":">>, <<"b">>>>, <<W_true \o <<":">>, W_true>>,
      <<<<Q, "\\", Q, "b", Q, ":">>, <<Q, "b">>>> }

Unclosed(a) ==
    IF a[Len(a)] = "," THEN SubSeq(a, 1, Len(a) - 1) \o <<"]">> ELSE a \o <<"]">>

KeyInTopArrays ==
    { KeyInArray(<<"[">> \o e \o k[1] \o <<"2">> \o end,
                 Unclosed(ClosedArray(e)), 1 + Len(e)) :
        e \in ElementsBefore, k \in WouldBeKeys, end \in { <<>>, <<"]">> } }

KeyInMemberArrays ==
    { KeyInArray(<<"{">> \o DocKey \o <<"[">> \o e \o k[1] \o <<"2">> \o end \o <<"}">>,
                 <<"{">> \o DocKey \o Unclosed(ClosedArray(e)) \o <<",", Q>>
                     \o (IF k[2][1] = Q THEN <<"\\">> ELSE <<>>) \o k[2]
                     \o <<Q, ":", "2", "}">>,
                 6 + Len(e)) :
        e \in ElementsBefore, k \in WouldBeKeys, end \in { <<>>, <<"]">> } }

KeyInArrayDocs == KeyInTopArrays \cup KeyInMemberArrays

KeyInArrayTexts == { c.text : c \in KeyInArrayDocs }

\* The family of documents with Python tokens as values, as
\* [text, whole, kinds]: whole has the JSON literal for each token, kinds are
\* the messages of the conversions in the order of the tokens.
PythonValues ==
    { [py |-> W_True,  js |-> W_true,  kinds |-> <<"Python True -> true">>],
      [py |-> W_False, js |-> W_false, kinds |-> <<"Python False -> false">>],
      [py |-> W_None,  js |-> W_null,  kinds |-> <<"Python None -> null">>],
      [py |-> <<"1">>, js |-> <<"1">>, kinds |-> <<>>] }

\* [before, between, after] of the two values of a document.
PythonFrames ==
    { <<<<"[">>, <<",">>, <<"]">>>>,
      <<<<"[", " ">>, <<" ", ",", " ">>, <<" ", "]">>>>,
      <<<<"{", Q, "x", Q, ":", " ">>, <<",", " ", Q, "y", Q, ":", " ">>, <<"}">>>>,
      <<<<"{", Q, "x", Q, ":", "[">>, <<"]", ",", Q, "y", Q, ":">>, <<"}">>>>,
      <<<<"[", "[">>, <<",", "1", "]", ",", "{", Q, "y", Q, ":">>, <<"}", "]">>>> }

PythonDocs ==
    { [text  |-> f[1] \o a.py \o f[2] \o b.py \o f[3],
       whole |-> f[1] \o a.js \o f[2] \o b.js \o f[3],
       kinds |-> a.kinds \o b.kinds] :
        f \in PythonFrames, a \in PythonValues, b \in PythonValues }
    \cup { [text |-> a.py, whole |-> a.js, kinds |-> a.kinds] : a \in PythonValues }

PythonTexts == { c.text : c \in PythonDocs }

\* The family of documents with trailing commas, as [text, whole]: whole is
\* the document without them.
RECURSIVE BeforeClosers(_)

\* The text with a comma before each of its closers.
BeforeClosers(text) ==
    IF text = <<>> THEN <<>>
    ELSE (IF Head(text) \in {"]", "}"} THEN <<",">> ELSE <<>>)
             \o <<Head(text)>> \o BeforeClosers(Tail(text))

\* The text with a comma before its last character.
BeforeLast(text) == SubSeq(text, 1, Len(text) - 1) \o <<",", text[Len(text)]>>

TrailingCommaDocs ==
    LET docs == { d \in Docs(1) \cup Docs(2) \cup Docs(3) : d[1] \in {"[", "{"} }
                    \cup { <<"[", "1", ",", "2", ",", "3", "]">>,
                           <<"{", Q, "a", Q, ":", "1", "}">>,
                           <<"[", Q, "]", Q, "]">>, <<"[", "t", "r", "u", "e", "]">>,
                           <<"{", Q, "a", Q, ":", "-", "1", ".", "5", "}">> }
    IN  { Cut(BeforeLast(d), d) : d \in docs }
        \cup { Cut(BeforeClosers(d), d) : d \in docs \ { <<"[", Q, "]", Q, "]">> } }

TrailingCommaTexts == { c.text : c \in TrailingCommaDocs }

\* The family of documents pruned at depth 1, as [text, slot]: a valid
\* document with a container as the element or member number slot of its
\* root.
Subtrees ==
    { <<"[", "]">>, <<"[", "1", "]">>, <<"{", "}">>, <<"{">> \o DocKey \o <<"1", "}">>,
      <<"[", "[", "1", "]", ",", "{", "}", "]">>,
      <<"{">> \o DocKey \o <<"{">> \o DocKey \o <<"[", "]", "}", "}">>,
      <<"[", Q, "]", Q, "]">>, <<"[", Q, "[", Q, "]">>, <<"[", Q, "}", Q, "]">>,
      <<"{">> \o DocKey \o <<Q, "}", Q, "}">>,
      <<"{">> \o DocKey \o <<Q, "{", Q, "}">>,
      <<"{">> \o DocKey \o <<Q, "]", Q, "}">> }

PrunedDocs ==
    { [text |-> <<"[">> \o sub \o <<",", "1", "]">>, slot |-> 1] : sub \in Subtrees }
    \cup { [text |-> <<"[", "1", ",">> \o sub \o <<",", Q, "b", Q, "]">>, slot |-> 2] :
              sub \in Subtrees }
    \cup { [text |-> <<"{">> \o DocKey \o sub \o <<",", Q, "b", Q, ":", "1", "}">>,
            slot |-> 1] : sub \in Subtrees }

PrunedTexts == { c.text : c \in PrunedDocs }

\* The family of quoted strings followed by something: a string in either
\* quote, then what follows its second quote, alone and as an element.
AfterQuote ==
    { <<>>, <<",">>, <<":">>, <<"}">>, <<"]">>, <<"{">>, <<"[">>, <<"a">>, <<"1">>,
      <<Q>>, <<"'">>, <<"/">>, <<" ", "a">>, <<" ", ",">>, <<"\n", "]">>, <<"\t">>,
      <<"-">>, <<" ", "'">>, <<"\\">> }

QuoteTexts ==
    { <<q, "a", q>> \o after : q \in {Q, "'"}, after \in AfterQuote }
    \cup { <<"[", q, "a", q>> \o after \o <<q, "]">> : q \in {Q, "'"}, after \in AfterQuote }

\* The family of arrays whose last element follows a run of unknown
\* characters, as [text, whole]: before unknown characters come before the
\* opener, an earlier element may have needed a retry, and whole is the array
\* a guard of RetryLimit consecutive skips gives.
RetryDocs ==
    { Cut(Repeat(<<"@">>, before) \o <<"[">> \o e[1] \o Repeat(<<"@">>, n) \o <<"1", "]">>,
          <<"[">> \o e[2]
              \o (IF n > RetryLimit THEN W_null \o <<",">> ELSE <<>>) \o <<"1", "]">>) :
        before \in 0..2,
        e \in { <<<<>>, <<>>>>, <<<<"1", ",">>, <<"1", ",">>>>,
                <<<<"@", "1", ",">>, <<"1", ",">>>> },
        n \in (RetryLimit - 1)..(RetryLimit + 1) }

RetryTexts == { c.text : c \in RetryDocs }

\* The options a caller gives besides the defaults.
DepthVariants == { [maxDepth |-> 0], [maxDepth |-> 1], [maxDepth |-> 2] }

FlagVariants ==
    { [allowComments |-> FALSE], [convertPythonTokens |-> FALSE],
      [convertUndefined |-> FALSE], [allowTrailingComma |-> FALSE] }

WithStrict(given) == [k \in DOMAIN given \cup {"strict"} |->
                        IF k = "strict" THEN TRUE ELSE given[k]]

\* The same text parsed without and then with strict mode.
StrictPair(text, given) ==
    <<SmartCall(text, given), SmartCall(text, WithStrict(given))>>

WithTrailingComma(given, b) ==
    [k \in DOMAIN given \cup {"allowTrailingComma"} |->
        IF k = "allowTrailingComma" THEN b ELSE given[k]]

\* The same text parsed with allowTrailingComma true and then false, the
\* other options being the given ones.
TrailingCommaPair(text, given) ==
    <<SmartCall(text, WithTrailingComma(given, TRUE)),
      SmartCall(text, WithTrailingComma(given, FALSE))>>

OtherOptions ==
    { <<>>, [strict |-> TRUE], [maxDepth |-> 1], [allowComments |-> FALSE] }

\* What getOptions() of the browser returns: all six options.
ChosenOptions ==
    { DEFAULT_OPTIONS,
      [DEFAULT_OPTIONS EXCEPT !.strict = TRUE],
      [DEFAULT_OPTIONS EXCEPT !.maxDepth = 1],
      [DEFAULT_OPTIONS EXCEPT !.convertPythonTokens = FALSE],
      [DEFAULT_OPTIONS EXCEPT !.allowComments = FALSE] }

\* The texts typed in the browser (never blank: parse() of the browser
\* returns before the request for a blank text).
TypedTexts ==
    { <<"1">>, <<"{", Q, "a", Q, ":", "1", "}">>, <<"[", "1", ",", "2", "]">>,
      <<"[", "[", "1", "]", "]">>, <<Q, "a", "\n", "b", Q>>, <<"[", "1", ",">>,
      <<"[">> \o W_True \o <<"]">>, <<"/", "/", "a", "\n", "1">>, <<"@", "1">>,
      <<Q, "a", "\\", Q, Q>> }

\* The same text and options given to parseSmart and then posted to /parse.
PostPair(text, chosen) == <<SmartCall(text, chosen), PostCall(text, chosen)>>

Scenarios ==
    { StrictPair(t, <<>>) : t \in FreeTexts \cup LexicalTexts \cup DocTexts }
    \cup { <<SmartCall(t, o)>> : t \in LexicalTexts, o \in FlagVariants }
    \cup { <<SmartCall(t, o)>> : t \in DocTexts, o \in DepthVariants }
    \cup { StrictPair(t, [maxDepth |-> 1]) : t \in FreeTexts \cup DocTexts }
    \cup { StrictPair(t, <<>>) : t \in GarbageTexts }
    \cup { <<SmartCall(t, <<>>)>> : t \in CutTexts \cup CommentedTexts \cup NoCommaTexts
                                             \cup KeyInArrayTexts
                                             \cup PythonTexts
                                             \cup TrailingCommaTexts
                                             \cup QuoteTexts
                                             \cup RetryTexts }
    \cup { <<SmartCall(t, [allowTrailingComma |-> TRUE])>> : t \in TrailingCommaTexts }
    \cup { <<SmartCall(t, [maxDepth |-> 1])>> : t \in PrunedTexts }
    \cup { TrailingCommaPair(t, o) : t \in TrailingCommaTexts \cup Texts(2),
                                     o \in OtherOptions }
    \cup { PostPair(t, o) : t \in TypedTexts, o \in ChosenOptions }
    \cup { StrictPair(NullInput, o) : o \in {<<>>} \cup DepthVariants \cup FlagVariants }
    \cup { <<DirectCall(t, <<>>)>> : t \in Texts(2) }

Init == InitWith(Scenarios)

Spec == Init /\ [][Next]_vars

----------------------------------------------------------------------------
(* The page of the browser: realtime parsing with a debounce timer.  The   *)
(* parser is not under way here; a response is known by the text of its    *)
(* request.  Responses arrive in any order.                                *)

MaxRequests == 3

\* The texts typed in the input field.
UITexts == { <<>>, <<" ">>, <<"1">>, <<"[", "1", "]">> }

parserVars == <<calls, input, options, pos, errors, depth, nestDepth, stack, ret,
                status, parsed, exception, outcomes, steps>>

\* parse() of the page up to the await: nothing for a blank text, else the
\* output and the notes are emptied and the request is sent.
UIParseCalled(u) ==
    IF IsBlank(u.value) THEN u
    ELSE [u EXCEPT !.output = <<>>,
                   !.notes = <<>>,
                   !.inflight = @ \cup {[id |-> u.issued + 1, raw |-> u.value]},
                   !.issued = @ + 1,
                   !.last = u.value]

\* parse() of the page after the await: the response to the request r is
\* stored and rendered.
UIResponseTaken(u, r) ==
    [u EXCEPT !.inflight = @ \ {r},
              !.currentResult = <<r.raw>>,
              !.output = <<r.raw>>,
              !.notes = <<r.raw>>]

\* The input listener: the text changes and the parse is scheduled again.
UIInput ==
    /\ \E t \in UITexts \ {ui.value} : ui' = [ui EXCEPT !.value = t, !.parseTimer = TRUE]
    /\ UNCHANGED parserVars

\* The debounce timer fires.
UITimer ==
    /\ ui.parseTimer
    /\ ui.issued < MaxRequests
    /\ ui' = UIParseCalled([ui EXCEPT !.parseTimer = FALSE])
    /\ UNCHANGED parserVars

\* A click on Parse.
UIClick ==
    /\ ui.issued < MaxRequests
    /\ ui' = UIParseCalled(ui)
    /\ UNCHANGED parserVars

\* The response to a request in flight arrives.
UIResponse ==
    /\ \E r \in ui.inflight : ui' = UIResponseTaken(ui, r)
    /\ UNCHANGED parserVars

UINext == UIInput \/ UITimer \/ UIClick \/ UIResponse

UISpec == InitWith({<<>>}) /\ [][UINext]_vars

----------------------------------------------------------------------------
(* The reference: a strict JSON decoder (RFC 8259) written independently   *)
(* of the parser, and deep equality of two values.                         *)

JSONSpace == {" ", "\t", "\n", "\r"}

\* Characters a JSON string may not hold unescaped (code below 32).
JSONControl == {"\t", "\n", "\r", "\f"}

JSONFail == [ok |-> FALSE, v |-> VNull, i |-> 0]

JSONGot(v, i) == [ok |-> TRUE, v |-> v, i |-> i]

RECURSIVE JSONSkip(_, _)
JSONSkip(t, i) ==
    IF i <= Len(t) /\ t[i] \in JSONSpace THEN JSONSkip(t, i + 1) ELSE i

JSONHas(t, i, word) ==
    i + Len(word) - 1 <= Len(t) /\ SubSeq(t, i, i + Len(word) - 1) = word

RECURSIVE JSONDigits(_, _)
JSONDigits(t, i) ==
    IF i <= Len(t) /\ t[i] \in Digit THEN JSONDigits(t, i + 1) ELSE i

\* -? (0 | [1-9] digits) (. digits+)? ([eE] [+-]? digits+)?
JSONNumber(t, i) ==
    LET a == IF t[i] = "-" THEN i + 1 ELSE i
        b == IF a <= Len(t) /\ t[a] = "0" THEN a + 1 ELSE JSONDigits(t, a)
        c == IF b <= Len(t) /\ t[b] = "." THEN JSONDigits(t, b + 1) ELSE b
        e == IF c <= Len(t) /\ t[c] \in {"e", "E"}
             THEN IF c + 1 <= Len(t) /\ t[c + 1] \in {"+", "-"} THEN c + 2 ELSE c + 1
             ELSE c
        d == IF e > c THEN JSONDigits(t, e) ELSE c
    IN  IF b > a /\ (c = b \/ c > b + 1) /\ (e = c \/ d > e)
        THEN JSONGot(VNum(NumberOf(SubSeq(t, i, d - 1))), d)
        ELSE JSONFail

\* The text of a string from i, just after its opening quote.
RECURSIVE JSONString(_, _, _)
JSONString(t, i, acc) ==
    IF i > Len(t) THEN JSONFail
    ELSE IF t[i] = "\"" THEN JSONGot(VStr(acc), i + 1)
    ELSE IF t[i] \in JSONControl THEN JSONFail
    ELSE IF t[i] # "\\" THEN JSONString(t, i + 1, Append(acc, t[i]))
    ELSE IF i + 1 > Len(t) THEN JSONFail
    ELSE IF t[i + 1] \in {"\"", "\\", "/", "b", "f", "n", "r", "t"}
    THEN JSONString(t, i + 2, Append(acc, EscapeChar(t[i + 1])))
    ELSE IF t[i + 1] = "u" /\ i + 5 <= Len(t)
            /\ \A k \in 2..5 : t[i + k] \in HexDigit
    THEN JSONString(t, i + 6,
                    Append(acc, FromCharCode(HexValue(SubSeq(t, i + 2, i + 5)))))
    ELSE JSONFail

\* A member of a decoded object: every name is an own property, a repeated
\* name keeps its place and takes the last value.
JSONSet(obj, key, value) ==
    IF IndexOf(obj.keys, key) = 0
    THEN VObj(Append(obj.keys, key), Append(obj.kids, value))
    ELSE VObj(obj.keys, [obj.kids EXCEPT ![IndexOf(obj.keys, key)] = value])

RECURSIVE JSONValue(_, _)
RECURSIVE JSONElements(_, _, _)
RECURSIVE JSONMembers(_, _, _)

\* The value that starts at i (white space skipped by the caller).
JSONValue(t, i) ==
    IF i > Len(t) THEN JSONFail
    ELSE IF JSONHas(t, i, W_true) THEN JSONGot(VBool(TRUE), i + 4)
    ELSE IF JSONHas(t, i, W_false) THEN JSONGot(VBool(FALSE), i + 5)
    ELSE IF JSONHas(t, i, W_null) THEN JSONGot(VNull, i + 4)
    ELSE IF t[i] = "\"" THEN JSONString(t, i + 1, <<>>)
    ELSE IF t[i] = "-" \/ t[i] \in Digit THEN JSONNumber(t, i)
    ELSE IF t[i] = "[" THEN
        LET j == JSONSkip(t, i + 1)
        IN  IF j <= Len(t) /\ t[j] = "]" THEN JSONGot(VArr(<<>>), j + 1)
            ELSE JSONElements(t, j, VArr(<<>>))
    ELSE IF t[i] = "{" THEN
        LET j == JSONSkip(t, i + 1)
        IN  IF j <= Len(t) /\ t[j] = "}" THEN JSONGot(VObj(<<>>, <<>>), j + 1)
            ELSE JSONMembers(t, j, VObj(<<>>, <<>>))
    ELSE JSONFail

\* The elements of an array from i, the elements before i being in arr.
JSONElements(t, i, arr) ==
    LET x == JSONValue(t, i)
        j == JSONSkip(t, x.i)
    IN  IF ~x.ok \/ j > Len(t) THEN JSONFail
        ELSE IF t[j] = "]" THEN JSONGot(ArrPush(arr, x.v), j + 1)
        ELSE IF t[j] = "," THEN JSONElements(t, JSONSkip(t, j + 1), ArrPush(arr, x.v))
        ELSE JSONFail

\* The members of an object from i, the members before i being in obj.
JSONMembers(t, i, obj) ==
    LET k == IF i <= Len(t) /\ t[i] = "\"" THEN JSONString(t, i + 1, <<>>) ELSE JSONFail
        c == JSONSkip(t, k.i)
        x == IF k.ok /\ c <= Len(t) /\ t[c] = ":"
             THEN JSONValue(t, JSONSkip(t, c + 1)) ELSE JSONFail
        j == JSONSkip(t, x.i)
    IN  IF ~x.ok \/ j > Len(t) THEN JSONFail
        ELSE IF t[j] = "}" THEN JSONGot(JSONSet(obj, k.v.s, x.v), j + 1)
        ELSE IF t[j] = "," THEN JSONMembers(t, JSONSkip(t, j + 1), JSONSet(obj, k.v.s, x.v))
        ELSE JSONFail

\* The decode of a whole text: [ok, v], ok false for a text that is not JSON.
JSONParse(t) ==
    LET x == JSONValue(t, JSONSkip(t, 1))
    IN  IF x.ok /\ JSONSkip(t, x.i) = Len(t) + 1 THEN x ELSE JSONFail

\* Same case and same content: elements in the same order, members under
\* the same names whatever their order.
RECURSIVE DeepEqual(_, _)
DeepEqual(a, b) ==
    /\ a.t = b.t
    /\ CASE a.t = "array" ->
              /\ Len(a.kids) = Len(b.kids)
              /\ \A i \in 1..Len(a.kids) : DeepEqual(a.kids[i], b.kids[i])
         [] a.t = "object" ->
              /\ Len(a.keys) = Len(b.keys)
              /\ \A i \in 1..Len(a.keys) :
                    /\ IndexOf(b.keys, a.keys[i]) # 0
                    /\ DeepEqual(a.kids[i], b.kids[IndexOf(b.keys, a.keys[i])])
         [] OTHER -> a = b

----------------------------------------------------------------------------
(* Properties of the outcomes.                                             *)

\* The last call made has returned its outcome.
Finished == status = "idle" /\ outcomes # <<>>

LastCall == calls[Len(outcomes)]

LastOutcome == outcomes[Len(outcomes)]

\* The call was parseSmart(text) with no options given.
ByDefault(call) == call.api = "parseSmart" /\ DOMAIN call.options = {}

\* The call was parseSmart and parse() returned to it (nothing was thrown,
\* and the text was not blank).
SmartReturned ==
    /\ Finished
    /\ LastCall.api = "parseSmart"
    /\ ~IsBlank(LastCall.input)
    /\ exception = <<>>

\* The value decoded has an array or an object at the top.
IsContainer(v) == v.t \in {"array", "object"}

\* C1: for any input that is syntactically valid JSON, parse_smart with the
\* default options returns ok = true, errorCount = 0 and results[0] deep-equal
\* to the reference strict JSON decode of the same text.
StrictJSONFidelity ==
    (Finished /\ ByDefault(LastCall) /\ JSONParse(LastCall.input).ok) =>
        /\ LastOutcome.ok
        /\ LastOutcome.errorCount = 0
        /\ LastOutcome.results # <<>>
        /\ DeepEqual(LastOutcome.results[1], JSONParse(LastCall.input).v)

\* C2: for every valid JSON text whose top-level value is an object or an
\* array (nesting not above maxDepth), parseSmart with the default options
\* returns ok = true and exactly one result, deep-equal to the reference
\* decode: same keys, same values, same element order.
ContainerFidelity ==
    (/\ Finished
     /\ ByDefault(LastCall)
     /\ JSONParse(LastCall.input).ok
     /\ IsContainer(JSONParse(LastCall.input).v)) =>
        /\ LastOutcome.ok
        /\ Len(LastOutcome.results) = 1
        /\ DeepEqual(LastOutcome.results[1], JSONParse(LastCall.input).v)

\* C3: parse_smart puts the dispatched top-level value into results whenever
\* the input is not empty and the value is not Absent (a top-level Null from
\* a literal or a recovery gives results = [Null]); results = [] only for an
\* empty input or an Absent top-level value.  ret is the value the dispatcher
\* returned to parse(), undefined if parse() found nothing to dispatch.
TopLevelValueInResults ==
    SmartReturned =>
        LastOutcome.results = IF ret = VUndefined THEN <<>> ELSE <<ret>>

\* C4: in every outcome returned by parse_smart, for every input and every
\* option combination, ok is true if and only if no diagnostic was logged:
\* ok = (errorCount = 0), and errorCount counts the log of the parse.
OkIffNoDiagnostics ==
    /\ \A i \in 1..Len(outcomes) :
          calls[i].api = "parseSmart" =>
              (outcomes[i].ok <=> outcomes[i].errorCount = 0)
    /\ (Finished /\ LastCall.api = "parseSmart" /\ ~IsBlank(LastCall.input)) =>
          /\ LastOutcome.errorCount = Len(errors)
          /\ LastOutcome.ok <=> errors = <<>>

\* A strict parse that logged one diagnostic has returned ok = false.
StrictFailureReturned ==
    /\ Finished
    /\ LastCall.api = "parseSmart"
    /\ options.strict
    /\ Len(errors) = 1
    /\ ~LastOutcome.ok

\* The scenario is a pair of calls on one text, without and with strict mode,
\* and both have returned.
StrictPairReturned ==
    /\ Len(calls) = 2
    /\ Len(outcomes) = 2
    /\ status = "idle"
    /\ calls[2] = SmartCall(calls[1].input, WithStrict(calls[1].options))

\* C5: with strict = true, for any input on which the non-strict parse (same
\* other options) logs at least one diagnostic, parse_smart aborts at the
\* first diagnostic: ok = false, results = [], errorCount = 1, and errors is
\* exactly the first formatted diagnostic of the non-strict run.
StrictAbortsAtFirstDiagnostic ==
    (StrictPairReturned /\ outcomes[1].errorCount >= 1) =>
        outcomes[2] = [ok |-> FALSE, results |-> <<>>, errorCount |-> 1,
                       errors |-> <<outcomes[1].errors[1]>>, multiple |-> FALSE]

\* A strict parse aborted where the non-strict parse logged the first of
\* several diagnostics and went on to return a tree.
StrictAbortedBeforePartialTree ==
    /\ StrictPairReturned
    /\ outcomes[1].errorCount >= 2
    /\ outcomes[1].results # <<>>
    /\ exception # <<>>

\* Whether undefined occurs in the tree of v.
RECURSIVE HasUndefined(_)
HasUndefined(v) ==
    \/ v.t = "undefined"
    \/ \E i \in 1..Len(v.kids) : HasUndefined(v.kids[i])

\* C7: the value tree in parse_smart's results contains no Absent at any
\* depth: an Absent given to the object reader is stored as Null, one given
\* to the array reader is dropped, and an Absent top-level value gives
\* results = [].
NoAbsentInResults ==
    \A i \in 1..Len(outcomes) :
        calls[i].api = "parseSmart" =>
            \A j \in 1..Len(outcomes[i].results) :
                ~HasUndefined(outcomes[i].results[j])

\* The object reader got Absent for the value of a key and the outcome binds
\* the key to Null.
AbsentStoredAsNull ==
    /\ SmartReturned
    /\ LastCall.input = <<"{", Q, "a", Q, ":", "}">>
    /\ LastOutcome.results = <<VObj(<<<<"a">>>>, <<VNull>>)>>

\* C8: the direct API parse() returns, for every input in non-strict mode, a
\* record {ok, result, errors} whose result is one of the six public cases
\* and never undefined, also for inputs that start with } or ].
DirectResultIsValue ==
    \A i \in 1..Len(outcomes) :
        (calls[i].api = "parse" /\ "result" \in DOMAIN outcomes[i]) =>
            outcomes[i].result.t \in
                {"null", "bool", "number", "string", "array", "object"}

\* The container readers past their depth check, reading members.
OpenReaders ==
    Cardinality({ i \in 1..Len(stack) :
                    /\ stack[i].fn \in {"parseObject", "parseArray"}
                    /\ stack[i].pc # "start" })

\* C9, as stated: in every reachable state containerDepth never exceeds
\* maxDepth, and no reader reads the members of a container that opens when
\* maxDepth containers are already open.
DepthNeverExceedsMax ==
    /\ nestDepth <= options.maxDepth
    /\ status = "running" => OpenReaders <= options.maxDepth

\* C9, amended: containerDepth never exceeds maxDepth + 1, it exceeds
\* maxDepth only in a strict parse aborted by the "Max depth" diagnostic
\* (raised between the increment and the decrement of the depth check), and
\* while the parse runs it counts the containers whose members are being
\* read, never more than maxDepth.
DepthSafety ==
    /\ nestDepth <= options.maxDepth + 1
    /\ nestDepth > options.maxDepth =>
          /\ options.strict
          /\ exception = <<ThrownText(errors[1].pos, MaxDepthMessage)>>
    /\ status = "running" =>
          /\ OpenReaders = nestDepth
          /\ OpenReaders <= options.maxDepth

\* A container that opened beyond maxDepth has just been skipped, and the
\* parse goes on with maxDepth containers open.
OverDeepContainerSkipped ==
    /\ status = "running"
    /\ errors # <<>>
    /\ errors[Len(errors)].message = MaxDepthMessage
    /\ pos > errors[Len(errors)].pos + 2
    /\ ret = Pruned
    /\ options.maxDepth >= 1
    /\ nestDepth = options.maxDepth

\* The object reader has just returned to the dispatcher from an object that
\* opened beyond maxDepth.
JustPrunedObject ==
    /\ In("parseValue", "tail")
    /\ errors # <<>>
    /\ errors[Len(errors)].message = MaxDepthMessage
    /\ At(errors[Len(errors)].pos) = "{"
    /\ pos = SkipBalanced(errors[Len(errors)].pos + 1, 1, "{", "}")

\* C10: when an object opens beyond maxDepth the object reader logs a "Max
\* depth" diagnostic and returns an empty object in its place, so that the
\* enclosing key is bound to an empty object.
OverDeepObjectIsEmptyObject ==
    JustPrunedObject => ret = VObj(<<>>, <<>>)

\* The dispatcher activations waiting for the retry they called.
Retrying == Cardinality({ i \in 1..Len(stack) : stack[i].pc = "retry" })

\* Every activation that is back at the head of its loop, and every
\* dispatcher that retried, has the cursor beyond where it was at the head.
LoopsAdvance ==
    \A i \in 1..Len(stack) :
        /\ stack[i].pc = "retry" => pos > stack[i].head
        /\ (i = Len(stack) /\ stack[i].pc = "loop" /\ stack[i].head >= 0) =>
              pos > stack[i].head

\* The points of the code from which a step goes on.
ProgramPoints ==
    { <<"parse", "start">>, <<"parse", "result">>,
      <<"parseValue", "start">>, <<"parseValue", "tail">>, <<"parseValue", "retry">>,
      <<"parseObject", "start">>, <<"parseObject", "loop">>,
      <<"parseObject", "key">>, <<"parseObject", "value">>,
      <<"parseArray", "start">>, <<"parseArray", "loop">>, <<"parseArray", "value">>,
      <<"parseString", "start">>, <<"parseString", "loop">> }

\* A step can be taken: the caller has a call to make or an outcome to
\* build, or the parser is at a point of its code.
CanStep ==
    \/ status = "idle" /\ ~Done
    \/ status \in {"returned", "thrown"}
    \/ /\ status = "running"
       /\ stack # <<>>
       /\ <<stack[Len(stack)].fn, stack[Len(stack)].pc>> \in ProgramPoints

\* C6: for every finite input and every option combination parse terminates:
\* while a call is under way a step can be taken, each iteration of the
\* object, array and string loops and each dispatcher retry advances the
\* cursor or leaves the loop, the retries pending are bounded by the retry
\* guard for each open container, the open containers by maxDepth, and the
\* steps taken by the length of the input.
ParseTerminates ==
    /\ Done \/ CanStep
    /\ status = "running" =>
          /\ LoopsAdvance
          /\ depth <= RetryLimit
          /\ Retrying <= RetryLimit * (nestDepth + 1)
          /\ nestDepth <= options.maxDepth
          /\ Len(stack) <= 2 + (RetryLimit + 2) * (nestDepth + 1)
    /\ steps <= 5 * Len(input) + 4

\* The retry guard is about to trip: RetryLimit retries are pending.
RetryGuardReached ==
    /\ status = "running"
    /\ Retrying = RetryLimit
    /\ depth = RetryLimit

\* Every activation has the cursor at or beyond where it was at its entry
\* (a dispatcher) or at the head of its loop (a reader).
HeadsBehind == \A i \in 1..Len(stack) : stack[i].head <= pos

\* C11: the cursor is monotonically non-decreasing: across every step of a
\* parse, and so across every call of parse, the dispatcher, the readers and
\* the white space skipper, the cursor at return is at or beyond the cursor
\* at entry.
CursorMonotone ==
    /\ [](status = "running" => HeadsBehind)
    /\ [][status = "running" => pos' >= pos]_vars

\* parse() has returned with the cursor at the end of a text it read through
\* containers, strings and white space.
CursorReachedEnd ==
    /\ status = "returned"
    /\ pos = Len(input)
    /\ pos >= 3
    /\ steps >= 6

\* The log is an extension of what it was.
Extends(later, earlier) ==
    /\ Len(later) >= Len(earlier)
    /\ SubSeq(later, 1, Len(earlier)) = earlier

\* C12: the diagnostic log only grows by appending: across every step of a
\* parse the log is an extension of what it was, and the errors of a
\* non-strict outcome are the logged diagnostics in the order they were
\* logged, each formatted "[pos N] message", errorCount being their number.
LogAppendOnly ==
    /\ [](SmartReturned =>
            /\ LastOutcome.errorCount = Len(errors)
            /\ Len(LastOutcome.errors) = Len(errors)
            /\ \A i \in 1..Len(errors) :
                  LastOutcome.errors[i] =
                      <<"[pos ", errors[i].pos, "] ", errors[i].message>>)
    /\ [][status = "running" => Extends(errors', errors)]_vars

\* A non-strict parse that logged several different diagnostics has returned.
SeveralDiagnosticsReturned ==
    /\ SmartReturned
    /\ ~options.strict
    /\ Len(errors) >= 3
    /\ errors[1] # errors[2]
    /\ errors[2].pos < errors[3].pos

\* The input is null, undefined, empty or made of what String.trim removes.
Trimmable(text) ==
    \/ text = NullInput
    \/ \A i \in 1..Len(text) : text[i] \in {" ", "\t", "\n", "\r", "\f", BOM}

\* The caller is about to call parseSmart on such an input.
BlankCall ==
    /\ status = "idle"
    /\ ~Done
    /\ ThisCall.api = "parseSmart"
    /\ Trimmable(ThisCall.input)

\* C13: for an input that is empty, white space only or null/absent,
\* parse_smart returns exactly {ok: true, results: [], errorCount: 0,
\* errors: [], multiple: false} without constructing a parser, whatever the
\* options (strict included).
EmptyInputOutcome ==
    /\ [](\A i \in 1..Len(outcomes) :
            (calls[i].api = "parseSmart" /\ Trimmable(calls[i].input)) =>
                outcomes[i] = [ok |-> TRUE, results |-> <<>>, errorCount |-> 0,
                               errors |-> <<>>, multiple |-> FALSE])
    /\ [][BlankCall =>
            /\ Len(outcomes') = Len(outcomes) + 1
            /\ UNCHANGED <<input, options, pos, errors, depth, nestDepth,
                           stack, ret, parsed, exception, steps>>]_vars

\* parseSmart was called on null in strict mode, as the second call of a
\* pair.
NullInputReturned ==
    /\ Finished
    /\ LastCall.input = NullInput
    /\ "strict" \in DOMAIN LastCall.options
    /\ Len(outcomes) = 2

\* The cut document that is the text, for a text of the family.
CutDocOf(text) == CHOOSE c \in CutDocs : c.text = text

\* C14: for a valid JSON document cut off at the end of input while
\* containers are open, non-strict parse_smart returns one result in which
\* every member read completely keeps its value, a key without its colon or
\* its value is bound to Null and every open container is closed, with
\* errorCount >= 1; an array of complete elements cut before its closer,
\* such as [1,2,3, gives exactly one diagnostic, "Unclosed array".
TruncatedDocumentRecovered ==
    (Finished /\ ByDefault(LastCall) /\ LastCall.input \in CutTexts) =>
        LET c == CutDocOf(LastCall.input)
        IN  /\ Len(LastOutcome.results) = 1
            /\ DeepEqual(LastOutcome.results[1], JSONParse(c.whole).v)
            /\ LastOutcome.errorCount >= 1
            /\ c.whole = c.text \o <<"]">> =>
                  /\ Len(errors) = 1
                  /\ errors[1].message.kind = "Unclosed array, auto-closing at pos %n"

\* A document cut at a pending key inside an object inside an array has
\* been recovered.
CutDocumentReturned ==
    /\ Finished
    /\ ByDefault(LastCall)
    /\ LastCall.input = <<"[", "1", ",", "{", Q, "a", Q, ":", "1", ",", Q, "b">>
    /\ Len(errors) >= 3

\* The document without its comment, for a text of the family.
PlainOf(text) == (CHOOSE c \in CommentedDocs : c.text = text).plain

\* C15: with allowComments = true, a line comment or a block comment put
\* between two tokens, where white space is permitted, leaves the returned
\* value tree unchanged and adds no diagnostic, for any mixture and order
\* of comments and white space.
CommentsPreserveValue ==
    (Finished /\ ByDefault(LastCall) /\ LastCall.input \in CommentedTexts) =>
        /\ LastOutcome.errorCount = 0
        /\ Len(LastOutcome.results) = 1
        /\ DeepEqual(LastOutcome.results[1], JSONParse(PlainOf(LastCall.input)).v)

\* Some diagnostic of the log has this message.
Logged(kind) == \E i \in 1..Len(errors) : errors[i].message.kind = kind

\* C16: when the comma between two members of an object is missing, both
\* members are recovered with their own keys and values and at least one
\* "Expected ',' or '}'" diagnostic is logged, whatever the type of the
\* value of the first member.
MissingCommaRecovered ==
    (Finished /\ ByDefault(LastCall) /\ LastCall.input \in NoCommaTexts) =>
        LET c == CHOOSE d \in NoCommaDocs : d.text = LastCall.input
        IN  /\ Len(LastOutcome.results) = 1
            /\ DeepEqual(LastOutcome.results[1], JSONParse(c.whole).v)
            /\ Logged("Expected ',' or '}' at pos %n, continuing")

\* The array reader of a call with the default options is at the head of its
\* loop, at the would-be key of a text of the family.
AtWouldBeKey ==
    /\ In("parseArray", "loop")
    /\ ByDefault(calls[Len(outcomes) + 1])
    /\ input \in KeyInArrayTexts
    /\ SkipWS(pos) = (CHOOSE c \in KeyInArrayDocs : c.text = input).at

\* C17: inside an array, before each value, if the next token is a quoted
\* string or an identifier followed (after optional white space) by a colon,
\* the array reader logs "Detected object key inside array", stops without
\* consuming the would-be key and returns the elements read so far; when the
\* array is a member value of an object, the key and its value then become a
\* member of the enclosing object.
KeyInsideArrayClosesArray ==
    /\ [](( /\ Finished
            /\ ByDefault(LastCall)
            /\ LastCall.input \in KeyInArrayTexts) =>
            LET c == CHOOSE d \in KeyInArrayDocs : d.text = LastCall.input
            IN  /\ Len(LastOutcome.results) = 1
                /\ DeepEqual(LastOutcome.results[1], JSONParse(c.whole).v)
                /\ Logged("Detected object key inside array at pos %n, closing array"))
    /\ [][AtWouldBeKey =>
            /\ pos' = SkipWS(pos)
            /\ Len(stack') < Len(stack)
            /\ ret' = stack[Len(stack)].val
            /\ errors'[Len(errors) + 1].message.kind =
                  "Detected object key inside array at pos %n, closing array"]_vars

\* A call with the default options returned after its array reader met a key:
\* the enclosing object has the member of the array and the member of the key.
KeyMovedToEnclosingObject ==
    /\ Finished
    /\ ByDefault(LastCall)
    /\ LastCall.input \in { c.text : c \in KeyInMemberArrays }
    /\ Len(LastOutcome.results) = 1
    /\ Len(LastOutcome.results[1].keys) = 2
    /\ Logged("Detected object key inside array at pos %n, closing array")

\* The dispatcher of a non-strict parse that converts Python tokens is about
\* to read the word in value position.
AtPythonToken(word) ==
    /\ In("parseValue", "start")
    /\ ~options.strict
    /\ options.convertPythonTokens
    /\ MatchWord(word, SkipWS(pos))

\* The step consumes exactly the word, returns the value v and appends one
\* diagnostic with the message kind.
ConsumesAs(word, v, kind) ==
    /\ pos' = SkipWS(pos) + Len(word)
    /\ Len(stack') = Len(stack) - 1
    /\ ret' = v
    /\ Len(errors') = Len(errors) + 1
    /\ SubSeq(errors', 1, Len(errors)) = errors
    /\ errors'[Len(errors')].message.kind = kind

\* C18: with convertPythonTokens=true, each occurrence of True, False or None
\* in value position is consumed as exactly that token, yields true, false
\* or null respectively, and logs exactly one diagnostic per occurrence.
PythonTokensConverted ==
    /\ [](( /\ Finished
            /\ ByDefault(LastCall)
            /\ LastCall.input \in PythonTexts) =>
            LET c == CHOOSE d \in PythonDocs : d.text = LastCall.input
            IN  /\ parsed # <<>>
                /\ DeepEqual(parsed[1].result, JSONParse(c.whole).v)
                /\ LastOutcome.errorCount = Len(c.kinds)
                /\ [i \in 1..Len(errors) |-> errors[i].message.kind] = c.kinds)
    /\ [][ /\ AtPythonToken(W_True) => ConsumesAs(W_True, VBool(TRUE), "Python True -> true")
           /\ AtPythonToken(W_False) => ConsumesAs(W_False, VBool(FALSE), "Python False -> false")
           /\ AtPythonToken(W_None) => ConsumesAs(W_None, VNull, "Python None -> null")
         ]_vars

\* A call with the default options returned an object whose two members
\* were written True and False, with two diagnostics.
TwoPythonTokensReturned ==
    /\ Finished
    /\ ByDefault(LastCall)
    /\ LastCall.input = <<"{", Q, "x", Q, ":", " ">> \o W_True
                          \o <<",", " ", Q, "y", Q, ":", " ">> \o W_False \o <<"}">>
    /\ LastOutcome.errorCount = 2
    /\ Len(LastOutcome.results) = 1
    /\ LastOutcome.results[1].kids = <<VBool(TRUE), VBool(FALSE)>>

\* The call was parseSmart with allowTrailingComma true, given or by default.
AllowsTrailingComma(call) ==
    /\ call.api = "parseSmart"
    /\ call.options \in { <<>>, [allowTrailingComma |-> TRUE] }

\* C19: with allowTrailingComma=true (the default), a comma immediately
\* before the closer of an object or an array logs no diagnostic and adds no
\* member or element: the outcome is the one of the document without the
\* comma, with ok=true.
TrailingCommaAccepted ==
    /\ [](( /\ Finished
            /\ AllowsTrailingComma(LastCall)
            /\ LastCall.input \in TrailingCommaTexts) =>
            LET c == CHOOSE d \in TrailingCommaDocs : d.text = LastCall.input
            IN  /\ LastOutcome.ok
                /\ LastOutcome.errorCount = 0
                /\ Len(LastOutcome.results) = 1
                /\ DeepEqual(LastOutcome.results[1], JSONParse(c.whole).v))
    /\ [][( /\ status = "running"
            /\ AllowsTrailingComma(calls[Len(outcomes) + 1])
            /\ input \in TrailingCommaTexts) => errors' = <<>>]_vars

\* The call parseSmart("[1,2,3,]") returned the three elements with ok=true.
TrailingCommaInArrayReturned ==
    /\ Finished
    /\ AllowsTrailingComma(LastCall)
    /\ LastCall.input = <<"[", "1", ",", "2", ",", "3", ",", "]">>
    /\ LastOutcome.ok
    /\ Len(LastOutcome.results) = 1
    /\ Len(LastOutcome.results[1].kids) = 3

\* A container reader of a non-strict parse starts beyond maxDepth, on a
\* container that is well-formed JSON.
AtOverDeepSubtree ==
    /\ In("parseObject", "start") \/ In("parseArray", "start")
    /\ ~options.strict
    /\ DepthExceeded(nestDepth + 1)
    /\ JSONValue(input, pos + 1).ok

\* The value v with x in place of its element or member number i.
WithKid(v, i, x) == IF i \in 1..Len(v.kids) THEN [v EXCEPT !.kids[i] = x] ELSE v

\* C20: when a container opens beyond maxDepth, the depth-overrun skip moves
\* the cursor to immediately after the closer that matches the opener of the
\* container, for every well-formed JSON subtree, so that what follows the
\* pruned subtree in the enclosing container is parsed exactly as it would
\* be without the depth limit.
DepthSkipMatchesSubtree ==
    /\ [](( /\ Finished
            /\ LastCall = SmartCall(LastCall.input, [maxDepth |-> 1])
            /\ LastCall.input \in PrunedTexts) =>
            LET c == CHOOSE d \in PrunedDocs : d.text = LastCall.input
            IN  /\ Len(LastOutcome.results) = 1
                /\ LastOutcome.errorCount = 1
                /\ DeepEqual(WithKid(LastOutcome.results[1], c.slot, VNull),
                             WithKid(JSONParse(c.text).v, c.slot, VNull)))
    /\ [][AtOverDeepSubtree => pos' = JSONValue(input, pos + 1).i - 1]_vars

UnclosedKinds ==
    { "Unclosed object, auto-closing at pos %n", "Unclosed array, auto-closing at pos %n" }

\* C21: a container reader logs its "Unclosed object, auto-closing" or
\* "Unclosed array, auto-closing" diagnostic only when its loop ended because
\* the cursor reached the end of the input: every such diagnostic of the log
\* was logged with the cursor at the end of the input.
UnclosedOnlyAtEndOfInput ==
    \A i \in 1..Len(errors) :
        errors[i].message.kind \in UnclosedKinds => errors[i].pos >= Len(input)

SkipKinds == { "Stray '%t' at pos %n, skipping", "Unexpected char '%t' at pos %n, skipping" }

\* The number of characters the dispatcher has skipped in a row at the value
\* position under way: the activations of the dispatcher waiting for a retry
\* directly below the activation under way.
RECURSIVE RetriesBelow(_)
RetriesBelow(i) ==
    IF i >= 1 /\ stack[i].fn = "parseValue" /\ stack[i].pc = "retry"
    THEN 1 + RetriesBelow(i - 1)
    ELSE 0

SkippedInARow == RetriesBelow(Len(stack) - 1)

\* The step is the dispatcher logging a stray separator or an unknown
\* character.
DispatcherSkips ==
    /\ In("parseValue", "start")
    /\ ~options.strict
    /\ Len(errors') = Len(errors) + 1
    /\ errors'[Len(errors')].message.kind \in SkipKinds

\* C22: a value preceded by at most 10 consecutive stray separators or
\* unknown characters is still returned by the dispatcher, with one
\* diagnostic per skipped character: up to the 10th skip in a row the
\* dispatcher consumes the character and dispatches again.  When an 11th
\* consecutive character has to be skipped, the dispatcher logs it, consumes
\* it, resets the retry counter to 0 and returns null without recursing.
RetryGuardCountsConsecutiveSkips ==
    [][DispatcherSkips =>
        /\ pos' = errors'[Len(errors')].pos + 1
        /\ IF SkippedInARow < RetryLimit
           THEN /\ Len(stack') = Len(stack) + 1
                /\ stack'[Len(stack')].fn = "parseValue"
           ELSE /\ Len(stack') = Len(stack) - 1
                /\ ret' = VNull
                /\ depth' = 0]_vars

\* The step is the dispatcher returning a value by a normal path: a literal,
\* a number, what a reader returned or what a retry returned; not the give-up
\* of the retry guard, not the null of the end of the input, not the absent
\* value of a closer.
DispatcherReturnsValue ==
    /\ status = "running"
    /\ stack # <<>>
    /\ stack[Len(stack)].fn = "parseValue"
    /\ ~options.strict
    /\ Len(stack') = Len(stack) - 1
    /\ ret' # VUndefined
    /\ ~DispatcherSkips
    /\ ~(stack[Len(stack)].pc = "start" /\ Eof(SkipWS(pos)))

\* C23: the retry counter is reset to zero on every successful value return:
\* whenever the dispatcher returns a value through a normal path, the counter
\* equals 0 at that return, also when the dispatcher was entered from a
\* container reader that was itself reached through a retry.
RetriesResetOnReturn == [][DispatcherReturnsValue => depth' = 0]_vars

\* The first character at or after the index i of the input (counted from 1)
\* that is not white space, "" when there is none.
RECURSIVE FirstAfter(_)
FirstAfter(i) ==
    IF i > Len(input) THEN ""
    ELSE IF input[i] \in WhiteSpace THEN FirstAfter(i + 1)
    ELSE input[i]

\* The string reader of a non-strict parse is on a character equal to its
\* opening quote.
AtQuote ==
    /\ In("parseString", "loop")
    /\ ~options.strict
    /\ pos < Len(input)
    /\ input[pos + 1] = stack[Len(stack)].quote

\* C24: in the string reader, a character equal to the opening quote
\* terminates the string (and is consumed) exactly when the next character
\* that is not white space is the end of the input or one of , : } ] { [;
\* otherwise it is appended to the string as a literal character, one
\* "Unescaped quote in string" diagnostic is logged and reading continues;
\* strings in double quotes and in single quotes are handled identically.
QuoteClosesBeforeStructure ==
    [][AtQuote =>
        LET top == stack[Len(stack)]
        IN  IF FirstAfter(pos + 2) \in {"", ",", ":", "}", "]", "{", "["}
            THEN /\ pos' = pos + 1
                 /\ Len(stack') = Len(stack) - 1
                 /\ ret' = VStr(top.str)
                 /\ errors' = errors
            ELSE /\ pos' = pos + 1
                 /\ Len(stack') = Len(stack)
                 /\ stack'[Len(stack)].fn = "parseString"
                 /\ stack'[Len(stack)].pc = "loop"
                 /\ stack'[Len(stack)].str = Append(top.str, top.quote)
                 /\ Len(errors') = Len(errors) + 1
                 /\ SubSeq(errors', 1, Len(errors)) = errors
                 /\ errors'[Len(errors')] =
                        [pos |-> pos,
                         message |-> Message("Unescaped quote in string at pos %n", <<>>, pos)]]_vars

\* The reader of a string in single quotes kept a single quote as a literal
\* character and logged it.
SingleQuoteKeptAsLiteral ==
    /\ In("parseString", "loop")
    /\ stack[Len(stack)].quote = "'"
    /\ stack[Len(stack)].str = <<"a", "'">>
    /\ Logged("Unescaped quote in string at pos %n")

\* C25: the retry guard of the dispatcher caps only consecutive skips within
\* one value position: the number of stray or unknown characters that may
\* precede a value inside a container before the dispatcher gives up with
\* null is 10, independent of how many characters were skipped before the
\* container was opened and of whether an earlier element of the container
\* needed a retry.
RetryGuardPerValuePosition ==
    (Finished /\ ByDefault(LastCall) /\ LastCall.input \in RetryTexts) =>
        LET c == CHOOSE d \in RetryDocs : d.text = LastCall.input
        IN  /\ Len(LastOutcome.results) = 1
            /\ DeepEqual(LastOutcome.results[1], JSONParse(c.whole).v)

\* C26: in every reachable state the cursor is between 0 and the length of
\* the input, and every diagnostic of the log has a position between 0 and
\* the length of the input, also after the white space skipper consumed a
\* block comment that is not terminated.
CursorWithinInput ==
    /\ pos \in 0..Len(input)
    /\ \A i \in 1..Len(errors) : errors[i].pos \in 0..Len(input)

\* C27: if parseSmart returns ok=true with errorCount=0 for an input that is
\* not empty, the whole input was consumed: after the top-level value the
\* cursor is at the end of the input up to trailing white space and comments.
CleanOutcomeConsumedInput ==
    ( /\ Finished
      /\ LastCall.api = "parseSmart"
      /\ ~IsBlank(LastCall.input)
      /\ LastOutcome.ok
      /\ LastOutcome.errorCount = 0 ) => SkipWS(pos) >= Len(input)

\* The scenario is a pair of calls on one text, with allowTrailingComma true
\* and then false, and both have returned.
TrailingCommaPairReturned ==
    /\ Len(calls) = 2
    /\ Len(outcomes) = 2
    /\ status = "idle"
    /\ calls[1].api = "parseSmart"
    /\ "allowTrailingComma" \in DOMAIN calls[1].options
    /\ calls = TrailingCommaPair(calls[1].input, calls[1].options)

\* C28: the allowTrailingComma option has no effect on the parser: for every
\* input and every setting of the other options, the outcome (ok, results,
\* errorCount, errors) with allowTrailingComma=false is identical to the
\* outcome with allowTrailingComma=true.
TrailingCommaOptionIgnored ==
    TrailingCommaPairReturned => outcomes[2] = outcomes[1]

\* Both calls returned for a text with a comma before the closer of an array.
TrailingCommaParsedBothWays ==
    /\ TrailingCommaPairReturned
    /\ calls[1].input = <<"[", "1", ",", "2", ",", "3", ",", "]">>
    /\ calls[1].options = [allowTrailingComma |-> TRUE]
    /\ outcomes[2].ok

\* The scenario is parseSmart(T, O) followed by the request of the browser
\* for the same T and O, and both have returned.
PostPairReturned ==
    /\ Len(calls) = 2
    /\ Len(outcomes) = 2
    /\ status = "idle"
    /\ calls[2].api = "post"
    /\ calls = PostPair(calls[2].input, calls[2].options)

\* C29: for a /parse request issued by the browser with the input text T and
\* the options O, the response of the server equals parseSmart(T, O): the
\* server parses the text T (not the envelope of the request) and applies
\* the options O chosen in the browser.
ServerParsesTextWithOptions ==
    PostPairReturned => outcomes[2] = outcomes[1]

\* C30: in the page with debounced realtime parsing, after any sequence of
\* edits of the input and clicks on Parse, once every outstanding request
\* to /parse has completed, currentResult, the rendered output and the
\* recovery notes are those of the response to the most recently issued
\* request: a response to an older request that arrives later never
\* overwrites a newer one.
LatestResponseShown ==
    (ui.issued > 0 /\ ui.inflight = {}) =>
        /\ ui.currentResult = <<ui.last>>
        /\ ui.output = <<ui.last>>
        /\ ui.notes = <<ui.last>>

====
